----------------------------- MODULE MiamiNights -----------------------------
(***************************************************************************)
(* The Miami Nights game cabinet: a button box, the server, and the pages  *)
(* of a browser, which the server connects by two web sockets.  The box    *)
(* reports its buttons when they change; the server passes them to the     *)
(* pages, or to a virtual joystick while an emulator runs; the pages       *)
(* colour the lights of the box and start emulators.  What is sent while a *)
(* socket is closed is dropped, so after a break each side is told to      *)
(* send again what it last knew.                                           *)
(*                                                                         *)
(* A web socket is its two ends and the messages between them.  When it    *)
(* breaks, what is under way may still arrive, and each end notices later. *)
(* The page that runs inside the browser is one of the logo and video      *)
(* pages, the menu, a game, or none while an emulator has the screen.      *)
(* Play only cuts the menu's countdown short, so it is no button here.     *)
(***************************************************************************)
EXTENDS Naturals, Sequences

CONSTANTS
    Buttons,        \* the buttons of the box
    back,           \* the one that leaves a game
    Colors,         \* what a page may set the lights to
    black,          \* the colour a page starts with
    rainbow,        \* what a disconnected box shows
    MaxEvents,      \* bound on what happens to the cabinet, of which
    MaxPresses,     \* changes of buttons
    MaxColors,      \* changes of colours
    MaxBreaks,      \* breaks of sockets
    MaxFailures     \* failed calls of the joystick's driver

ASSUME MiamiNightsAssumption ==
    /\ back \in Buttons /\ black \in Colors /\ rainbow \notin Colors
    /\ {MaxEvents, MaxPresses, MaxColors, MaxBreaks, MaxFailures} \subseteq Nat

Ends == {"box", "app"}

VARIABLES
    client,     \* each client's end: "closed", "connecting" or "open"
    server,     \* the server's end: "closed" or "open"
    up,         \* the connections that are not broken
    toServer, toClient,     \* the messages under way
    pressed,    \* what the GPIO inputs of the box read
    boxStates, boxColors,   \* its m_button_states and m_button_colors
    level,      \* the run level of the server
    states,     \* its m_button_states
    emulator,   \* the runner's thread: "none", "running", or "ended" and posted
    joystick,   \* EmulatorJoystick: states, running, expired, acquired
    timer,      \* its m_timer runs
    device,     \* the buttons the virtual joystick holds down
    appStates, clicked,     \* button_states of the pages, and what was clicked
    colors, sendTimer,      \* button_colors and send_timer
    screen,     \* curScreen: "logo", "menu", "game" or "none"
    selected,   \* what was selected in the menu: "no", "game" or "emulator"
    music, orphan,          \* the menu's music plays; an earlier one still does
    presses, paints, breaks, failures   \* how often each has happened

link == <<client, server, up, toServer, toClient>>
box == <<boxStates, boxColors>>
joy == <<joystick, timer, device, failures>>
srv == <<level, states, emulator>>
pads == <<appStates, clicked>>
lights == <<colors, sendTimer>>
pages == <<screen, selected, music, orphan>>
budgets == <<presses, paints, breaks>>
vars == <<link, pressed, box, joy, srv, pads, lights, pages, budgets>>

Init ==
    /\ client = [e \in Ends |-> "closed"] /\ server = [e \in Ends |-> "closed"]
    /\ up = {}
    /\ toServer = [e \in Ends |-> <<>>] /\ toClient = [e \in Ends |-> <<>>]
    /\ pressed = {} /\ boxStates = {} /\ boxColors = rainbow
    /\ level = "up" /\ states = {} /\ emulator = "none"
    /\ joystick = [states |-> {}, running |-> FALSE, expired |-> FALSE, acquired |-> FALSE]
    /\ timer = FALSE /\ device = {}
    /\ appStates = {} /\ clicked = {}
    /\ colors = black /\ sendTimer = FALSE
    /\ screen = "logo" /\ selected = "no" /\ music = FALSE /\ orphan = FALSE
    /\ presses = 0 /\ paints = 0 /\ breaks = 0 /\ failures = 0

MayHappen(n, max) == n < max /\ presses + paints + breaks + failures < MaxEvents

-----------------------------------------------------------------------------
\* Messages of one kind each, with what they carry.
States(s) == [type |-> "ButtonStates", value |-> s]
ButtonColors(c) == [type |-> "ButtonColors", value |-> c]
Signal(t) == [type |-> t, value |-> {}]

\* Sent by the server, or by a client, if its end is open; lost when it is broken.
Sends(e, ms) ==
    toClient' = IF server[e] = "open" /\ e \in up THEN [toClient EXCEPT ![e] = @ \o ms] ELSE toClient

Reports(e, m) ==
    toServer' = IF client[e] = "open" /\ e \in up THEN [toServer EXCEPT ![e] = Append(@, m)] ELSE toServer

\* Mutant: only the end that has opened is told to send again.
ConnectOne(e) ==
    /\ client[e] = "closed" /\ level = "up"
    /\ client' = [client EXCEPT ![e] = "connecting"]
    /\ server' = [server EXCEPT ![e] = "open"] /\ up' = up \cup {e}
    /\ toServer' = [toServer EXCEPT ![e] = <<>>]
    /\ toClient' = [toClient EXCEPT ![e] = <<Signal("opened")>>
                        \o IF \A f \in Ends : server'[f] = "open"
                           THEN <<Signal("RetransmitRequired")>> ELSE <<>>]
    /\ UNCHANGED <<pressed, box, joy, srv, pads, lights, pages, budgets>>

\* A client tries again: the server closes the web socket it has, if any, and
\* answers the upgrade; both ends are told to send again if both are open.
Connect(e) ==
    /\ client[e] = "closed" /\ level = "up"
    /\ client' = [client EXCEPT ![e] = "connecting"]
    /\ server' = [server EXCEPT ![e] = "open"] /\ up' = up \cup {e}
    /\ toServer' = [toServer EXCEPT ![e] = <<>>]
    /\ toClient' = [f \in Ends |->
            (IF f = e THEN <<Signal("opened")>> ELSE toClient[f])
            \o IF f \in up' /\ \A g \in Ends : server'[g] = "open"
               THEN <<Signal("RetransmitRequired")>> ELSE <<>>]
    /\ UNCHANGED <<pressed, box, joy, srv, pads, lights, pages, budgets>>

\* The network: what was sent last in each direction may be lost.
Break(e) ==
    /\ e \in up /\ MayHappen(breaks, MaxBreaks) /\ breaks' = breaks + 1
    /\ up' = up \ {e}
    /\ \E n \in 0 .. Len(toServer[e]) : toServer' = [toServer EXCEPT ![e] = SubSeq(@, 1, n)]
    /\ \E n \in 0 .. Len(toClient[e]) : toClient' = [toClient EXCEPT ![e] = SubSeq(@, 1, n)]
    /\ UNCHANGED <<client, server, pressed, box, joy, srv, pads, lights, pages, presses, paints>>

ServerNotices(e) ==
    /\ e \notin up /\ server[e] # "closed"
    /\ server' = [server EXCEPT ![e] = "closed"]
    /\ toServer' = [toServer EXCEPT ![e] = <<>>]
    /\ UNCHANGED <<client, up, toClient, pressed, box, joy, srv, pads, lights, pages, budgets>>

-----------------------------------------------------------------------------
\* A button of the box goes down or up, however often between two renders.
Press ==
    /\ MayHappen(presses, MaxPresses) /\ presses' = presses + 1
    /\ \E b \in Buttons : pressed' = IF b \in pressed THEN pressed \ {b} ELSE pressed \cup {b}
    /\ UNCHANGED <<link, box, joy, srv, pads, lights, pages, paints, breaks>>

\* ButtonBoxPattern::Render: only a change is sent.
Render ==
    /\ boxStates' = pressed
    /\ boxColors' = IF client["box"] = "open" THEN boxColors ELSE rainbow
    /\ IF pressed # boxStates THEN Reports("box", States(pressed)) ELSE UNCHANGED toServer
    /\ UNCHANGED <<client, server, up, toClient, pressed, joy, srv, pads, lights, pages, budgets>>

BoxReceives ==
    /\ toClient["box"] # <<>> /\ client["box"] # "closed"
    /\ toClient' = [toClient EXCEPT !["box"] = Tail(@)]
    /\ LET m == Head(toClient["box"]) IN
          /\ client' = IF m.type = "opened" THEN [client EXCEPT !["box"] = "open"] ELSE client
          /\ boxColors' = IF m.type = "ButtonColors" THEN m.value ELSE boxColors
          /\ IF m.type = "RetransmitRequired" THEN Reports("box", States(boxStates))
             ELSE UNCHANGED toServer
    /\ UNCHANGED <<server, up, pressed, boxStates, joy, srv, pads, lights, pages, budgets>>

BoxNotices ==
    /\ "box" \notin up /\ client["box"] # "closed"
    /\ client' = [client EXCEPT !["box"] = "closed"]
    /\ toClient' = [toClient EXCEPT !["box"] = <<>>]
    /\ UNCHANGED <<server, up, toServer, pressed, box, joy, srv, pads, lights, pages, budgets>>

-----------------------------------------------------------------------------
\* What the joystick shows: the idle timer holds down back.
Wanted(j) == j.states \cup IF j.running /\ j.expired THEN {back} ELSE {}

\* UpdateVJD, after one that showed the buttons earlier in the same handler.
\* One that fails gives the device back, to be acquired by the next.
Update(j, earlier) ==
    \/ joystick' = [j EXCEPT !.acquired = TRUE] /\ device' = Wanted(j) /\ UNCHANGED failures
    \/ /\ MayHappen(failures, MaxFailures) /\ failures' = failures + 1
       /\ joystick' = [j EXCEPT !.acquired = FALSE]
       /\ device' \in {device, earlier}

\* SetStates
SetStates(s) ==
    LET j == [joystick EXCEPT !.states = s] IN
    IF level = "up"
    THEN Update(j, device) /\ timer' = (timer \/ j.running)
    ELSE joystick' = j /\ UNCHANGED <<timer, device, failures>>

\* Mutant: the idle timer is not cancelled with the emulator.
SwitchWithoutCancel(running, s) ==
    LET j == [joystick EXCEPT !.running = running,
                              !.expired = IF running # joystick.running THEN FALSE ELSE @]
        k == [j EXCEPT !.states = s]
    IN  IF level = "up"
        THEN Update(k, Wanted(j)) /\ timer' = (timer \/ running)
        ELSE joystick' = k /\ UNCHANGED <<timer, device, failures>>

\* SetEmulatorRunning and then SetStates.
Switch(running, s) ==
    LET j == [joystick EXCEPT !.running = running,
                              !.expired = IF running # joystick.running THEN FALSE ELSE @]
        k == [j EXCEPT !.states = s]
    IN  IF level = "up"
        THEN Update(k, Wanted(j)) /\ timer' = running
        ELSE joystick' = k /\ UNCHANGED <<timer, device, failures>>

\* HandleTimerExpired, which starts the timer again.
IdleTimeout ==
    /\ timer /\ level = "up"
    /\ Update([joystick EXCEPT !.expired = TRUE], device)
    /\ timer' = joystick.running
    /\ UNCHANGED <<link, pressed, box, srv, pads, lights, pages, budgets>>

HandleButtonStates(s) ==
    /\ states' = s
    /\ IF emulator # "none"
       THEN SetStates(s) /\ UNCHANGED toClient
       ELSE Sends("app", <<States(s)>>) /\ UNCHANGED joy
    /\ UNCHANGED emulator

HandleButtonColors(c) ==
    /\ Sends("box", <<ButtonColors(c)>>)
    /\ UNCHANGED <<states, emulator, joy>>

\* Start does nothing when an emulator runs already.
HandleStartEmulator ==
    /\ Sends("app", <<States({})>>)
    /\ emulator' = IF emulator = "none" THEN "running" ELSE emulator
    /\ Switch(TRUE, states)
    /\ UNCHANGED states

ServerReceives(e) ==
    /\ toServer[e] # <<>> /\ server[e] = "open"
    /\ toServer' = [toServer EXCEPT ![e] = Tail(@)]
    /\ LET m == Head(toServer[e]) IN
          \/ m.type = "ButtonStates" /\ HandleButtonStates(m.value)
          \/ m.type = "ButtonColors" /\ HandleButtonColors(m.value)
          \/ m.type = "StartEmulator" /\ HandleStartEmulator
    /\ UNCHANGED <<client, server, up, pressed, box, level, pads, lights, pages, budgets>>

\* The emulator's process ends, or never started.
EmulatorEnds ==
    /\ emulator = "running" /\ emulator' = "ended"
    /\ UNCHANGED <<link, pressed, box, joy, level, states, pads, lights, pages, budgets>>

\* Mutant: the buttons are not sent after the end.
ProcessCompletedOnly ==
    /\ emulator = "ended" /\ emulator' = "none"
    /\ Switch(FALSE, {})
    /\ Sends("app", <<Signal("EmulatorCompleted")>>)
    /\ level' = IF level = "stopping" THEN "stopped" ELSE level
    /\ UNCHANGED <<client, server, up, toServer, pressed, box, states, pads, lights, pages, budgets>>

\* EmulatorRunner::ProcessCompleted, the application's handler and CheckShutdown.
ProcessCompleted ==
    /\ emulator = "ended" /\ emulator' = "none"
    /\ Switch(FALSE, {})
    /\ Sends("app", <<Signal("EmulatorCompleted"), States(states)>>)
    /\ level' = IF level = "stopping" THEN "stopped" ELSE level
    /\ UNCHANGED <<client, server, up, toServer, pressed, box, states, pads, lights, pages, budgets>>

\* The server stops: its sockets are closed and the joystick is left as it is,
\* and the runner waits for its thread.
HandleStopping ==
    /\ level = "up"
    /\ level' = IF emulator = "none" THEN "stopped" ELSE "stopping"
    /\ timer' = FALSE
    /\ server' = [e \in Ends |-> "closed"] /\ up' = {}
    /\ toServer' = [e \in Ends |-> <<>>]
    /\ UNCHANGED <<client, toClient, pressed, box, states, emulator, joystick, device, failures,
                   pads, lights, pages, budgets>>

-----------------------------------------------------------------------------
\* showScreen for a page; plays says that the menu's music was not stopped.
Show(s, plays) ==
    /\ screen' = s /\ selected' = "no"
    /\ music' = (s = "menu")
    /\ orphan' = (orphan \/ plays)

\* Mutant: the menu's music plays on.
ShowSelectedPlaying ==
    IF selected = "game" THEN Show("game", TRUE) /\ UNCHANGED toServer
    ELSE IF client["app"] # "open" THEN Show("logo", TRUE) /\ UNCHANGED toServer
    ELSE Show("none", TRUE) /\ Reports("app", Signal("StartEmulator"))

\* The menu's entry: an emulator has no page, the server must start it.
ShowSelected ==
    IF selected = "game" THEN Show("game", FALSE) /\ UNCHANGED toServer
    ELSE IF client["app"] # "open" THEN Show("logo", FALSE) /\ UNCHANGED toServer
    ELSE Show("none", FALSE) /\ Reports("app", Signal("StartEmulator"))

\* One frame of the page that is shown, and frameCompleted.  Fading, countdowns
\* and idle times end in any frame.
Frame ==
    /\ screen # "none" /\ clicked' = {}
    /\ \/ UNCHANGED <<pages, toServer>>
       \/ /\ screen = "logo" /\ appStates \ {back} # {}
          /\ Show("menu", FALSE) /\ UNCHANGED toServer
       \/ /\ screen = "menu" /\ selected = "no" /\ back \in clicked
          /\ Show("logo", FALSE) /\ UNCHANGED toServer
       \/ /\ screen = "menu" /\ selected = "no" /\ back \notin clicked /\ clicked # {}
          /\ selected' \in {"game", "emulator"} /\ UNCHANGED <<screen, music, orphan, toServer>>
       \/ screen = "menu" /\ selected # "no" /\ ShowSelected
       \/ screen = "game" /\ back \in clicked /\ Show("menu", FALSE) /\ UNCHANGED toServer
       \/ screen = "game" /\ Show("logo", FALSE) /\ UNCHANGED toServer
    /\ UNCHANGED <<client, server, up, toClient, pressed, box, joy, srv, appStates, lights, budgets>>

\* The menu's music ends and shows the logo; so does one that was not stopped.
MusicEnds ==
    /\ \/ music /\ Show("logo", FALSE)
       \/ orphan /\ screen' = "logo" /\ selected' = "no" /\ music' = FALSE /\ orphan' = music
    /\ clicked' = {}
    /\ UNCHANGED <<link, pressed, box, joy, srv, appStates, lights, budgets>>

\* A page changes its lights: they are sent a moment later.
Paint ==
    /\ screen # "none" /\ MayHappen(paints, MaxColors) /\ paints' = paints + 1
    /\ colors' \in Colors \ {colors} /\ sendTimer' = TRUE
    /\ UNCHANGED <<link, pressed, box, joy, srv, pads, pages, presses, breaks>>

SendTimerExpired ==
    /\ sendTimer /\ sendTimer' = FALSE
    /\ Reports("app", ButtonColors(colors))
    /\ UNCHANGED <<client, server, up, toClient, pressed, box, joy, srv, pads, colors, pages, budgets>>

\* back is clicked when it goes down, the others whenever a message has them down.
Clicks(s) == clicked \cup (s \ {back}) \cup ({back} \cap (s \ appStates))

AppReceives ==
    /\ toClient["app"] # <<>> /\ client["app"] # "closed"
    /\ toClient' = [toClient EXCEPT !["app"] = Tail(@)]
    /\ LET m == Head(toClient["app"]) IN
          /\ client' = IF m.type = "opened" THEN [client EXCEPT !["app"] = "open"] ELSE client
          /\ IF m.type = "RetransmitRequired" THEN Reports("app", ButtonColors(colors))
             ELSE UNCHANGED toServer
          /\ appStates' = IF m.type = "ButtonStates" THEN m.value ELSE appStates
          /\ clicked' = IF m.type = "ButtonStates" THEN Clicks(m.value)
                        ELSE IF m.type = "EmulatorCompleted" THEN {} ELSE clicked
          /\ IF m.type = "EmulatorCompleted" THEN Show("menu", music) ELSE UNCHANGED pages
    /\ UNCHANGED <<server, up, pressed, box, joy, srv, lights, budgets>>

\* Mutant: a lost connection leaves the screen to the emulator.
AppNoticesOnly ==
    /\ "app" \notin up /\ client["app"] # "closed"
    /\ client' = [client EXCEPT !["app"] = "closed"]
    /\ toClient' = [toClient EXCEPT !["app"] = <<>>]
    /\ UNCHANGED <<server, up, toServer, pressed, box, joy, srv, pads, lights, pages, budgets>>

AppNotices ==
    /\ "app" \notin up /\ client["app"] # "closed"
    /\ client' = [client EXCEPT !["app"] = "closed"]
    /\ toClient' = [toClient EXCEPT !["app"] = <<>>]
    /\ IF screen = "none" THEN Show("logo", FALSE) /\ clicked' = {}
       ELSE UNCHANGED <<pages, clicked>>
    /\ UNCHANGED <<server, up, toServer, pressed, box, joy, srv, appStates, lights, budgets>>

-----------------------------------------------------------------------------
Stopped == level = "stopped" /\ UNCHANGED vars

Next ==
    \/ \E e \in Ends :
          Connect(e) \/ Break(e) \/ ServerNotices(e) \/ ServerReceives(e)
    \/ Press \/ Render \/ BoxReceives \/ BoxNotices
    \/ IdleTimeout \/ EmulatorEnds \/ ProcessCompleted \/ HandleStopping
    \/ Frame \/ MusicEnds \/ Paint \/ SendTimerExpired \/ AppReceives \/ AppNotices
    \/ Stopped

Spec == Init /\ [][Next]_vars

\* Clients try again, ends notice a break, messages arrive and timers expire.
\* An emulator ends when back is held down, and need not otherwise.
FairSpec ==
    /\ Spec
    /\ \A e \in Ends :
          WF_vars(Connect(e)) /\ WF_vars(ServerNotices(e)) /\ WF_vars(ServerReceives(e))
    /\ WF_vars(Render) /\ WF_vars(BoxReceives) /\ WF_vars(BoxNotices)
    /\ WF_vars(SendTimerExpired) /\ WF_vars(AppReceives) /\ WF_vars(AppNotices)
    /\ WF_vars(IdleTimeout) /\ WF_vars(ProcessCompleted)
    /\ WF_vars(back \in device /\ EmulatorEnds)

-----------------------------------------------------------------------------
\* What a client and the server send each other at each end.
FromClient(e) ==
    IF e = "box" THEN {States(s) : s \in SUBSET Buttons}
    ELSE {ButtonColors(c) : c \in Colors} \cup {Signal("StartEmulator")}

FromServer(e) ==
    {Signal("opened"), Signal("RetransmitRequired")}
        \cup IF e = "box" THEN {ButtonColors(c) : c \in Colors}
             ELSE {States(s) : s \in SUBSET Buttons} \cup {Signal("EmulatorCompleted")}

\* The variables have their types, and each end receives what it understands.
TypeOK ==
    /\ client \in [Ends -> {"closed", "connecting", "open"}]
    /\ server \in [Ends -> {"closed", "open"}]
    /\ up \subseteq Ends
    /\ DOMAIN toServer = Ends /\ \A e \in Ends : toServer[e] \in Seq(FromClient(e))
    /\ DOMAIN toClient = Ends /\ \A e \in Ends : toClient[e] \in Seq(FromServer(e))
    /\ pressed \subseteq Buttons /\ boxStates \subseteq Buttons /\ states \subseteq Buttons
    /\ device \subseteq Buttons /\ appStates \subseteq Buttons /\ clicked \subseteq Buttons
    /\ boxColors \in Colors \cup {rainbow} /\ colors \in Colors
    /\ level \in {"up", "stopping", "stopped"}
    /\ emulator \in {"none", "running", "ended"}
    /\ joystick \in [states : SUBSET Buttons, running : BOOLEAN, expired : BOOLEAN, acquired : BOOLEAN]
    /\ timer \in BOOLEAN /\ sendTimer \in BOOLEAN /\ music \in BOOLEAN /\ orphan \in BOOLEAN
    /\ screen \in {"logo", "menu", "game", "none"} /\ selected \in {"no", "game", "emulator"}
    /\ presses \in Nat /\ paints \in Nat /\ breaks \in Nat /\ failures \in Nat

\* Nothing is under way: both sockets are open at both ends, their messages
\* have been handled and nothing waits to be sent or to be called.
Quiet ==
    /\ up = Ends /\ \A e \in Ends : client[e] = "open" /\ server[e] = "open"
    /\ \A e \in Ends : toServer[e] = <<>> /\ toClient[e] = <<>>
    /\ boxStates = pressed /\ ~sendTimer /\ emulator # "ended"

\* Whatever was lost, in whichever order the ends came back and an emulator
\* started or ended in between, once nothing is under way the server knows the
\* buttons, the pages do unless an emulator runs, and the box shows the pages'
\* colours.
Agreed ==
    /\ states = pressed
    /\ emulator = "none" => appStates = pressed
    /\ boxColors = colors

AgreeWhenQuiet == Quiet => Agreed

\* The joystick is used by an emulator that runs and by nothing else: it then
\* shows the last states the server has got, and back after it has been idle;
\* otherwise it is let go and no timer is left to press it.
JoystickFollows ==
    /\ joystick.running = (emulator # "none")
    /\ joystick.states = IF joystick.running THEN states ELSE {}
    /\ joystick.acquired /\ level = "up" => device = Wanted(joystick)
    /\ level = "up" => timer = joystick.running

\* The joystick is the emulator's alone, of whatever types the variables are.
Consistent == TypeOK /\ JoystickFollows

\* As long as no socket has broken, no page is shown, and plays on the buttons
\* or its music, while an emulator runs.
EmulatorHasScreen ==
    emulator # "none" /\ level = "up" /\ breaks = 0 => screen = "none"

\* The cabinet comes to agree again after every press, break and emulator.
Converges == []<>(level # "up" \/ Agreed)

\* An emulator gives the screen back: it is ended by an idle joystick, its end
\* is reported, or the pages notice that it can not be.
ScreenReturns == screen = "none" ~> screen # "none"
=============================================================================
