# A TLA+ model of BBox and CampLight

The repository holds a C++ framework, BBox, and the programs built on it: CampLight, LED signs and a games table, with
their browser clients. This directory models the part of it that is hard to test: objects that run in one event loop
and a few threads, that start and stop in an order, and that are told of results later than they would like.
`PROJECT.json` lists, for each definition, the lines of code that it stands for, for each run what it checks, and for each
hazard of the code the properties that would notice.

Contents: [components](#the-system), [how they interact](#interactions), [modules](#modules),
[runs and bounds](#runs), [fairness](#fairness), [proofs](#proofs), [what the code gets wrong](#disagreements),
[limits of the models](#limits), [what is not modelled](#not-modelled).

## The system

Paths are below `src/src/`. "Level" is one of `CONSTRUCTED`, `STARTING`, `RUNNING`, `STOPPING`, `STOPPED`.

| Component | State | Operations | What is hard | What makes it correct |
|---|---|---|---|---|
| Resource hierarchy, proactor (`BBoxRt/bbox/rt/details/ResourceBase.cpp`, `Proactor.cpp`) | overall and local level of each object, posted update work, references, dependencies, children | Run, RequestStart, RequestStop, HandleUpdateWork, NotifyStarted, NotifyStopped, construction and destruction | the order of posted handlers; waiting for three kinds of relation; objects that come and go | nobody starts before or outlives what it uses; every start and stop ends; no assertion fails |
| Timer (`Timer.cpp`) | sequence numbers of the start and of the wait, count of outstanding handlers, periods left | StartSingleShot, StartPeriodic, Cancel, HandleTimeout, HandleStopping | a timeout that has expired when it is cancelled; use from its own callback | no call after a cancel; no handler on a destroyed timer |
| OneShotWork (`OneShotWork.cpp`) | three token counters | Schedule, Cancel, DoCallback, HandleStopping | handlers of cancelled schedules still queued | one call for each schedule that stands; a stop after the last handler |
| Thread pool (`ThreadPool.cpp`, `ThreadPoolRef.cpp`) | queue, finished flag, counters, condition variable, thread | RunOnThread, ThreadFunc, RunItem, both HandleStopping, NotifyThreadCompleted | two threads; lost wake ups; completions that hand over more work | work completes once, in order, before its reference stops; the thread is joined |
| Network change service, Linux (`lin/LinuxNetworkChangeService.cpp`, `net/NetworkChange*.cpp`) | adapters found and known, timer, detection in progress, handlers | detect, compare, report, join, leave, start, stop | a thread fills a list the proactor reads; a stop or a new handler during a detection | one of detection and timer at any time; handlers know what the service knows |
| Network change service, Windows (`win32/*.cpp`) | notifier, pending calls, "another required", reference, query | TriggerUpdate, HandleUpdateRequired, RequestAdapters, HandlUpdateComplete, stop | three threads; a change during a query; the API calling during the stop | no query on a stopped reference; changes are not missed |
| Console shutdown (`ConsoleShutdownService.cpp`) | service pointer, mutex, signal handlers | construct, destruct, ctrl_c_handler | signals in any thread, on top of anything | never a destroyed service; the first signal ends the process |
| HTTP server (`BBoxHttp/bbox/http/server/HttpServer.cpp`, `details/Connection.cpp`, `RequestHandler.cpp`) | listeners, connections, ordered handlers, web sockets, shutdown work | AddServer, accept, read, answer, upgrade, write, erase, stop | everything closes by itself around the stop | the longest prefix answers; the stop waits for everything and completes |
| Server web socket (`server/details/WebSocketConnection.cpp`, `ServerWebSocket.cpp`) | outstanding operations, close flags, queue of messages, owner's handle | accept, read, write and their handlers, Send, Close, deletion | results after a close; calls within callbacks; two pointers at each other | the owner sees a channel; deletion after the last operation |
| Web socket client (`client/WebSocketClient.cpp`) | connection, timer, pending sends, read and write under way | Open, Close, Send, attempts, HandleError, stop | errors of a read and a write in either order | one connection at a time; it keeps trying; it stops |
| Light show of CampLight (`Applications/CampLight/camplight/render`, `pattern/TransitionPattern.cpp`, `factory`, `transition`) | entry of the sequence, current, next and pending pattern of each side, timestamps | frame, ChangeToSequence, ChangeTo, RenderTo, start, stop | changes during transitions; subtraction of unsigned times | nothing jumps; the last change is shown; dark at the end |
| HTTP client (`BBoxHttp/bbox/http/client/HttpClient.cpp`, `ClientRequest.cpp`) | set of requests under way, handles that keep each alive, the check that is scheduled | Send, resolve, connect, write, read, Complete, stop | the owner's callback sends and drops requests; nothing cancels one | each request has one result, on a request that is still there; the stop waits for the last |
| UDP socket (`net/UdpSocket.cpp`) | reading flag, reads outstanding, stop requested | EnableReading, DisableReading, HandleRead, Close, HandleStopping | a read left from an earlier enable; both calls from within the callback | one read at a time, and one whenever reading is enabled; the stop waits for it |
| SSDP discovery (`net/ssdp/*.cpp`) | interfaces by address, scheduled check, counters and timers of adverts and searches, devices found | check, adapters change, advertise, search, receive, stop | an address that returns while its interface stops; lost packets; packets into an interface that stops | interfaces follow the adapters; what neighbours know is what is there; devices go with their interface |
| Audio service (`BBoxAudio/bbox/audio/windows`, `synth`) | stop flag, events, loop position, keyboard, card, notes | start, stop, loop, MidiInProc, join | three threads, one of which is the driver's | no call on what is destroyed; the keyboard's keys and the synth's notes agree; the thread is joined |
| Miami Nights (`Applications/MiamiNights/mn`, `Applications/MiamiNightsWeb/ts`, `Applications/LedSigns/.../ButtonBox*`) | what each of box, server and pages last told the others, emulator, joystick, page | press, colour, connect, break, StartEmulator, EmulatorCompleted, idle, stop | all is sent over sockets that drop it while they are closed | all agree in the end; the emulator gives screen and joystick back |
| Tetris (`MiamiNightsWeb/ts/ui/tetris`) | board, piece, shadow, ages of fall and lock, buttons | frame: move, turn, kick, drop, lock, clear | many moves in one frame, kicks at the top | no cell lost or locked over another |
| Debug streams and web site (`BBoxUtils/bbox/debug`, `BBoxHttpDebug`) | stack of outputs, reports, spans; page's socket and what it asked for | AllocateStream, DestroyStream, write; accept, ask, fail, close | nesting of user's, asynchronous and MIME outputs; sockets the site hears nothing more of | text reaches the report it is for; a page is sent what it asked for |
| Fadecandy client and `RenderService` of the LED signs (`Applications/LibLeds/leds/FadecandyClient.cpp`, `LedSigns/ledsigns/RenderService.cpp`) | socket open, outstanding operation, reconnect timer, pending and written frame | frame, connect, write, fail, reconnect, stop | frames, failures and the stop in any order | one operation at a time; the last frame is shown; it reconnects and stops |
| Values, encodings, IDL compiler, utilities, GPIO pins, Lua, build tools, tests, third-party code | none that outlives a call, or not this repository's | | | not modelled: see [below](#not-modelled) |

## Interactions

Everything of the C++ programs lives in one tree of objects below a `Proactor`. All handlers run in the thread that
called `Proactor::Run`; the threads of the pool, of the Windows API and of signals reach it by `ThreadSafePost` or not
at all. So one handler is one step in the models, and another thread's critical section is one step.

- The hierarchy calls `HandleStarting` and `HandleStopping` of each object; the object answers with `NotifyStarted` and
  `NotifyStopped`, at once or later. The modules of the components take over there: each has `level`, its local level,
  `RequestStop` as what its owner does, and `HandleStopping` as an action whose guard is what `ResourceLifecycle` lets
  the hierarchy wait for (clients gone, references stopped).
- Timers and one shot work are children of the services that use them and call them back. Users
  (`NetworkChange`, `WebSocketClient`, `Renderer`, `HttpServer`) have them as a flag and an action, which is what
  `Trigger` promises.
- The network services hand detections to the thread pool through a `ThreadPoolRef`; `WorkService` is what they use.
- The HTTP server turns a connection into a web socket of a handler's owner, and deletes it when it reports its end.
  `HttpServer` has a web socket as four states, `ServerWebSocket` has it in detail.
- The hierarchy's levels are what the console service looks at from a signal handler.
- `SsdpDiscovery` is told of adapters by a handler of the network change service, and gives each address a `UdpSocket`
  below an interface of its own. Adverts and searches are its clients; it stops after them.
- The debug web site is a service with handlers in the HTTP server and one web socket of it; `DebugOutput`s reach it from
  any code that writes one.
- The button box, the Miami Nights server and the pages are separate programs. Two message web sockets join them, one
  with a `WebSocketClient` at its other end and one with the browser's, which both try again until they are open.

## Modules

Abstract specifications, which say what a component promises and nothing of how:

- `LifecycleContract`: objects are offline, online, leaving or gone, in the order of uses and of the tree.
- `Trigger`: calls only while armed, each one less of those armed for (endless calls stay endless), none after a disarm.
- `WorkService`: work completes in order; a reference stops after its work, the pool after its references.
- `Channel`: a web socket opens or is lost, and says so once each; messages are written in order; nothing after the end.
- `Requests`: every request handed over has one result, none is taken on by a client that stops, which stops after the last.

Components:

- `ResourceLifecycle`. `overall` and `local` are the two levels, `work` the objects with `m_work_requested`. Each branch
  of `HandleUpdateWork` is an action (`UpdateStarting` ... `UpdateStopped`); they read the relations the code walks
  (`Children`, `Referenced`, `Referencing`, `DependantOnThem`, `DependantOnUs`). `Prompt` objects complete within their
  handlers, the others by `NotifyStarted` and `NotifyStopped` at any later time. Owners may stop children
  (`OwnerStop`), construct and destroy resources. Implements `LifecycleContract` by `status`.
- `Timer`. A start queues a wait with a new sequence number; `waits` is what asio has, `Expire` the passing of a
  deadline, `HandleTimeout` the handler up to the callback and `CallbackReturns` the rest. The owner's `Use` may come in
  between, because the callback may use the timer. Implements `Trigger` by `Owed`, the calls still to come: a call
  takes one off, and without a call only `Use` changes them (`OwnerArms`).
- `OneShotWork`. `posted` counts the queued handlers, which run in order, so that tokens need not be in them.
  Implements `Trigger` with the owner's one pending call, which goes with the call or the stop and is otherwise changed by
  `Use` alone (`OwnerSchedules`).
- `ThreadPool`. The proactor's thread and the pool's, each critical section a step; `posted` is what the thread has
  posted. Spurious wake ups are steps. Implements `WorkService`: what is in either thread's hands is `Outstanding`.
- `NetworkAdapters` (the world that changes), `NetworkChange` for Linux and `Win32NetworkChange` for Windows.
- `ConsoleShutdown`. Each thread has a stack of signal handlers (`frames`); the mutex records the depth at which it is
  held, so that a thread that waits for itself is visible (`SelfDeadlock`).
- `HttpServer`. Listeners, connections and web sockets each have the phases until they are erased by the handler
  their end has posted; `handlers` is `m_request_handlers`, a set whose order is `RequestHandlerOrder`.
- `WebSocketOperations` (operations of a stream that end or are cancelled; a cancel may come too late),
  `ServerWebSocket` and `WebSocketClient`. A callback of the server's end is a state, `busy`, in which the owner acts.
  `ServerWebSocket` implements `Channel`.
- `FadecandyClient`. `op` is the operation asio has and `result` its outcome once there is one, so that a close can come too
  late; a frame is the latest or an older one. `framed` orders the reconnect timer after the frame timer of `RenderService`.
- `HttpClient`. `at` is how far a request is, and an action is the handler of the operation it waits for, which may have
  failed; `busy` is the request whose callback runs, in which the owner may send and drop others. `handles` are the
  owner's, the client's is `requests`. Implements `Requests`.
- `UdpSocket`. `reads` is what asio has; the owner's steps are possible in every handler and in the callback (`busy`).
- `SsdpDiscovery`. `OnCheckNetwork` is the whole check: create, stop, destroy. An interface is a slot of its address, of
  which there may be two, one stopping and one not. What adverts and searches send is what it does to the neighbours
  (`heard`, `asked`); a packet may be lost.
- `AudioThread`. `at` is where the loop is; the driver's calls and the mutex's critical sections are steps.
- `MiamiNights`. The button box, the server and the page, with the messages under way on each socket (`toServer`,
  `toClient`). A socket has two ends (`server`, `client`), which notice a break one after the other. `Agreed` is what everybody must come to.
- `Tetris`. A frame is one action: the buttons are updated, then the loop of `_handleButtons` and the fall run as often
  as the age says: `Iterate` is one turn of that loop, from the game's state to the next (`Sideways`, `DropOrTurn`,
  `Fall`, `Lock`).
- `DebugStreams` and `DebugWebsite`. The stack of `DebugOutput`s of a thread, with which of them is active; the site's one
  socket, what its page has asked for, and the flags of the `DebugEnable`s. `asked` and `unasked` are history.
- `Renderer`. A frame is one action. Timestamps are kept as ages, because the code only subtracts them from the frame's;
  a start in the future, which would wrap around, is a negative age. An image is which transition has got how far.

`MC<module>` gives constants their values for TLC; `web_socket_client_read` needs none, its configuration has the one number. `MCSchedulers`, `MCNetworkChange`, `MCHttp`, `MCWebSockets` (three builds),
`MCMiamiNights` and `MCDiscovery` put several specifications side by side: a variable (`build` or `end`), chosen at the
beginning and never changed, says which of them runs, the others' variables keep their initial values, and the fairness is
that of each specification in its own case. So a run is the sum of its builds, not their product. A definition whose
comment begins with "Mutant" is the way a plausible bug would change the definition it precedes; none is used by a
specification, and `PROJECT.json` ("mutants") names the property that TLC finds violated with each.

## Runs

All runs check for deadlock; a state in which the program may stay is an explicit stuttering step (`Stopped`,
`Terminated`, `Idle`), so that any other state without a successor is an error.

| Run | Instance and bounds | What it shows |
|---|---|---|
| `lifecycle` | nine services and two resources with all kinds of relation that the repository has (the network change and SSDP services with what they use); one resource comes and goes | no assertion of `ResourceBase` fails, providers outlive users, no update work is lost, stops are complete, `LifecycleContract` is implemented, everything starts and, once told, stops |
| `schedulers` | `OneShotWork` with 8 schedules; `Timer` with starts while fewer than 3 waits are outstanding, 1, 2 or endless calls; `ThreadPool` with two references of up to three items; `ConsoleShutdown` with two threads, two kinds of signal, three signals; `AudioThread` with two notes and a keyboard up to two events ahead | tokens, counters and threads agree; a late timeout is never taken for a call; no work reaches a finished pool; no signal handler uses a destroyed service and no driver a closed keyboard; `Trigger` and `WorkService` are implemented; what is scheduled runs, what is started fires, stops complete, the first signal that finds everything running ends the process unless a further one aborts or hangs it |
| `network_change` | two handlers and three states of the world (Linux), three pending calls (Windows) | the Linux service has exactly one of a detection and its timer, its handlers are current; on Windows three threads agree; both come to know the adapters, start and stop |
| `console_shutdown_request` | one signal | a signal at the start calls `RequestStop` of a proactor that is not `RUNNING` (a disagreement) |
| `http` | three requests, one of a bad address; a server with one listener, two connections, the two handlers of the debug site, three resources; outputs of two MIME types, 3 deep, 4 in all, 3 pieces of text; a debug page with two names of which one ends with the other | `Requests` is implemented, an owner has one open web socket, the longest prefix answers, client and server stop; text is in the report it is for, in the type it was written in; a page is sent what it asked for and nothing of an earlier page's |
| `http_server_listener` | the server alone | the assertion about a pending accept fails (a disagreement) |
| `http_client_port` | the client alone | a request connects to port 0 (a disagreement) |
| `web_sockets` | three messages sent, two received | at either end: counters and flags agree; the server's end is a `Channel`; a client opens no connection beside the rest of an old one, keeps trying and stops, with the two exceptions below; a sign's client has one operation at a time, leaves no frame unwritten, reconnects and stops |
| `web_socket_client_read` | three messages sent | the assertion of `StartRead` fails (a disagreement) |
| `renderer` | white, which is one entry, and a wave of four; transitions of 2 to 4 periods, entries of 3 and 5 | ages are never negative; no change is lost; nothing jumps; the last sequence is what is shown in the end; dark at the stop |
| `miami_nights` | two buttons, two colours; three events, of which up to two presses, one colour, two breaks, one failed driver call; a board of 5 by 4 with two hidden rows, the bar and the T, three pieces | when nothing is under way everybody knows the same buttons and colours, and they come to; the idle timer runs only with an emulator; the screen comes back from an emulator; no cell of Tetris is lost or filled twice |
| `discovery` | a socket with two datagrams in the kernel; two addresses, of which one may have two adapters, two changes, one packet lost, one advert or one search with one device | one read at a time; the check that is needed is scheduled; devices are heard on interfaces that exist; neighbours know an advert that has not said goodbye, although packets were lost; everything follows the adapters and stops |

Why these bounds are enough. Each is where the last kind of interleaving appears, and one more only repeats it.
A timer's handler compares its number with the current one: with three outstanding waits there are a current one and two
old ones, of which one expired and one was aborted. Eight schedules allow several cancelled handlers in front of the one that
stands, twice. Two references meet in the pool's queue, and the third item of one is queued behind another's while one
runs. Two handlers of a service can be one that has joined and one that has not. A third signal can land on a handler
that has landed on a handler. The server's things only meet in the three sets that must be empty: two connections
suffice for "the last but one". Three messages are one that is being written and a queue of two, whose order shows. In the
debug site one page follows another in each way in which a page can end. Two breaks of a socket are a
break, and a break while what followed the first is still under way. In Tetris a piece can be turned above the
board, kicked by both walls, locked on another and clear a row in five rows of four. An advert says everything four
times and one loss leaves three; two changes take an address away and bring it back while its interface stops. In the
renderer the slow fade (4) outlasts an entry of the wave (3), so that changes are pending behind others, and
replaced while they are; `MaxAge` is beyond every duration. The relations of the hierarchy are not bounded by choice: the
instance is the repository's own, and the theorems below are about any.

## Fairness

No specification obliges anybody to request a stop, to send a signal, to change an adapter or to use anything; only what
has been set in motion goes on. Weak fairness stands for: the io_service runs what is posted, a thread that is not
blocked runs, time passes, a callback returns, a cancelled operation ends. Strong fairness is assumed where weak would
be too little, and what the code relies on is indeed stronger:

- `HttpServer`: `ConnectionClosed`. The server does not close its connections when it stops, it waits for them: a stop
  ends only because no peer asks for ever. This is an assumption on peers, not on the code.
- `WebSocketClient`: failure of a read and of a write. The same assumption at the other end: `HandleStopping` cancels
  only the attempt's operations and the socket, and a cancel can come too late for an operation that has ended.
- `Win32NetworkChange`: `HandleStopping`. The API may call again and again; the hierarchy's posted work still runs.
- `ConsoleShutdown`: steps of threads. A mutex that is released again and again is taken some time by everybody.
- `UdpSocket`: `Receive` and `HandleStopping`. The owner may disable and enable reading again and again; what is in the
  kernel is read some time, and the hierarchy's posted work still runs.
- `AudioThread`: weak fairness of the card, as long as it is not lost. A card that is lost may never want samples again: the
  thread waits without a timeout, so that a stop may then hang, and `StopCompletes` is stated with that exception.
- `MiamiNights`: an emulator whose back button is held ends. The stop of the server waits for an emulator
  that nobody ends, which is left out of what is promised.
- `FadecandyClient`: a connect that succeeds now and then. Without a server the client tries for ever, which is what it is for;
  that it stops does not need it.
- `Tetris`, `DebugStreams` and `DebugWebsite` have no fairness: nothing there must happen.

## Proofs

TLC checks the instances above, TLAPS proves the following for all values of the constants that satisfy the assumption of
the module (`TopologyAssumption`, `TimerAssumption`, `Win32Assumption`, ...), which TLC evaluates too. A bound of a run is a
constant there: the theorems hold for any number of signals, messages, calls, losses or breaks. Each proof has one lemma
for an action or for a kind of action, and the theorem combines them. The modules that put several specifications side by
side are proved about too: their theorems say that the composed behaviour, restricted to the variables of one, is one of it.

| Module | Specification | Inductive invariant | Theorems |
|---|---|---|---|
| `ResourceLifecycleProofs` | `ResourceLifecycle` | `Core /\ Order /\ Quiet` | `TypeCorrect`, `AssertionsHold`, `ServicesStayAvailable`, `StopsAreComplete`, `LevelsOnlyAdvance`, `WakeupsArePosted`, `KeepsOrder` |
| `SchedulersProofs` | `OneShotWork` | `IInv` | `TypeCorrect`, `StaysConsistent`, `ImplementsSafety` |
| | `Timer` | `TimerInv` | `TimerStaysConsistent`, `TimerImplementsSafety` |
| | `ThreadPool` | `PoolInv` | `PoolStaysConsistent`, `PoolIsWorkService` |
| | `ConsoleShutdown` | `ConsoleInv` | `ConsoleStaysConsistent` |
| | `AudioThread` | `AudioInv` | `AudioStaysConsistent` |
| | `MCSchedulers` | | `OthersStayConsistent`, `SoundStaysConsistent` |
| `NetworkChangeProofs` | `NetworkChange` | `IInv` | `TypeCorrect`, `KeepsDetecting`, `MembersAreCurrent` |
| | `Win32NetworkChange` | `Win32Inv` | `Win32StaysConsistent`, `BuiltStaysConsistent` |
| `WebSocketsProofs` | `WebSocketClient` | `IInv` | `StaysConsistent` |
| | `ServerWebSocket` | `ServerInv` | `ServerStaysConsistent`, `ServerImplementsSafety` |
| | `FadecandyClient` | `SignInv` | `SignStaysConsistent`, `OthersStayConsistent` |
| `HttpProofs` | `HttpClient` | `IInv` | `StaysConsistent`, `ImplementsSafety` |
| | `HttpServer` | `ServerInv` | `ServerStaysConsistent`, `LongestPrefixAnswers`, `BoundServerStaysConsistent`, `BoundLongestPrefixFirst` |
| | `DebugStreams`, `DebugWebsite` | `StreamsInv`, `SiteInv` | `StreamsStayConsistent`, `SiteStaysConsistent`, `DebugStaysConsistent` |
| `DiscoveryProofs` | `UdpSocket` | `SocketInv` | `SocketStaysConsistent`, `BoundSocketStaysConsistent` |
| | `SsdpDiscovery` | `IInv` | `StaysConsistent`, `NeighboursComeToKnow` |
| `RendererProofs` | `Renderer` | `Consistent`, `AsSeen` | `StaysConsistent`, `NeverJumps` |
| `MiamiNightsProofs` | `MiamiNights` | `Typed`, `JoystickFollows`, `Links`, `Coming`, `Token` | `StaysConsistent`, `AgreesWhenQuiet`, `EmulatorStaysOnScreen`, `BuiltIsCabinet` |
| | `Tetris` | `TetrisInv` | `GameStaysConsistent`, `TetrisStaysConsistent` |

Why the invariants are what they are:

- The hierarchy. The properties are not inductive: that a provider runs says nothing unless the pairs of levels that
  occur are known. `Core` has the legal pairs and that resources are never started; `Order` relates the levels of
  an object to those of its children, its providers and its clients, in both directions; `Quiet` says that a stopped
  object has no work. `WakeupsArePosted` needs in addition that the references are connected as long as the proactor
  has not stopped (`Wakeup`), since the stop of a user is announced through them. `StopsAreComplete` needs that the tree has no
  loop, which `TopologyAssumption` states as induction over sets of objects. `KeepsOrder` maps every step to one of
  `LifecycleContract`.
- One shot work. `TokensMatchPosted` counts the queued handlers by tokens; `NothingPending` says that a work that
  has stopped was requested to, and has nothing pending, without which a handler might call back during the stop.
- Timer. `m_pending_timeouts` is the cardinality of what asio has. Aborting the waits maps that set to another, of the same
  size because no two waits share a number, and that is an invariant too. The refinement of `Trigger` has each
  call take one off those the start was for (`Owed`). It needs that a count is either endless or at most what leaves its
  next call below that (`CallsBounded`), and that `RUN_FOR_EVER` is more than one call, which `TimerAssumption` says.
  `OwnerArms` and `OwnerSchedules` are lemmas of their own, since `Trigger` has the owner's steps but not who takes them.
- Thread pool. `OnItsWay` is the one sequence in which work waits, in three hands: posted back, run, queued. A
  reference counts its items in it (`WorkCounted`), the finished flag empties it (`ThreadKnown`), and `WorkService`'s
  queue is it. So each critical section is a step of the service, or moves an item from one hand to the next.
- Console. A handler uses the service while it has the mutex (`LiveWhileUsed`), and it has it at a depth of the
  stack of its own thread (`MutexHeld`), however many signals have come on top.
- Audio. No note is stuck because of what is still to come: `ReleaseComes` says that after whatever the driver has
  queued for a note whose key is up, a release follows. `JoinKnown` and `DriverKnown` order the thread's and the
  driver's phases, which is what nobody calling the destroyed comes from.
- Network change. `Phases` adds what the level says of the first detection and of the stop.
- Windows. What is in the proactor's queue matters, and its order: `Queue` says that the updates are before the stop of the
  reference, `Calls` that `m_pending_counter` is the number of updates posted or about to be, `Query` that a query is in
  one hand, `Stop` how far the reference has got at each level of the service.
- Web socket client. `OpenedForOperations` says that operations are under way only in a client that has been opened, so that the
  timer an error starts is one of an opened client; `ClosingKeeps` is what a close does to them, which may come too late.
- Server web socket. `ServerPhases` orders the accept before the first read and write; `MessagesQueued` says that the queue
  holds exactly the numbers after the one being written, up to the one sent last, which is what the refinement of
  `Channel`'s `Write` needs. `ServerImplementsSafety` proves `Channel`'s safety part, every step or a stutter; that what is
  closed is destroyed is a liveness property and left to TLC.
- Sign. `FramesFollow` says which frame a connect or a write leaves, so that none stays on an open connection.
- HTTP client. A request whose callback runs has completed, and a check is scheduled only in a client that stops: with
  these, that the list has exactly the requests under way, and that a stopped client's is empty, is inductive.
  `ImplementsSafety` maps every step to one of `Requests`.
- HTTP server. The three sets that must be empty to stop are `Empty`; the handlers are those of the owners that
  run, and what has become a web socket has left its connection (`SocketsKept`). `LongestPrefixAnswers` follows from
  `RequestHandlerOrder` alone, for any set of handlers.
- Debug streams. `Nested` says that asynchronous outputs are a stack of their own within the stack, and that a MIME
  output has the report of the one below it; `Good` that the spans of a report follow each other and cover its text. The
  site's `AskedLater`: nothing has been asked for while a page is accepted.
- UDP socket. `StopsOnRequest` adds that a socket leaves `RUNNING` only when told to and outside of its callback.
- Discovery. `Accounted` is an account of what has missed a neighbour: the messages an advert has sent while one knows
  the wrong thing are no more than what was lost and what changed, and `late` remembers who has yet to send on the
  address that has just gone. With three of them the fourth message has arrived.
- Renderer. `Consistent` is inductive as it is, once stated of a side (`Ordered`, `Target`): the lemmas say what a
  change, a rendering and a period do to one side. `NeverJumps` is about two frames and needs what the earlier one has
  shown: `AsSeen` says that it is the current pattern, with at most a next one that is yet to begin, or the transition
  that is under way, and that every change on a side takes more than one period, so that none is complete in the first
  frame that shows it. A transition goes forward because integer division grows with what is divided (`StepsGrow`).
- Miami Nights. `Agreed` only holds when nothing is under way, which no step preserves. `Coming` says where everything is
  that somebody does not know yet while both connections are there: in the message sent last, in one that will be
  passed on, with a timer, or with a client that will be told to send again. `Links` ties the two ends of a connection
  to each other. `Token` has the screen: `StartEmulator` under way, the emulator, or `EmulatorCompleted` under way,
  once, or a page.
- Tetris. `Consistent` is not inductive: a button that is held drops the piece to `shadowPiece`, which the code takes to be
  there. `ShadowFirst` says that no button is pressed before the first shadow, and a button is held only after it
  was pressed in an earlier frame (`Updating`). Within a frame, `Sound` relates the record that the loop works on to the board
  and the piece the frame began with, and holds after each turn. That clearing rows loses nothing (`RowsCleared`) is counted by a
  bijection: each cell of a row that stays goes to where it comes down, and rows that stay keep their order
  (`RowsStayApart`). The proof is for any kinds of piece and any board of four columns or more. It needs two hidden rows, which is what
  `GameBoard.ts` has: a new piece reaches one row above its place, in a row that must exist. And it needs that a frame
  takes no longer than a row (`Gaps`), the bound under which the loop's two turns are enough.

How the proofs are cut to what the provers take: a queue is looked at by what is in it (`Has`, `Latest`, `Once`,
`Count`), with one lemma for sending and one for taking, and no proof looks below these again. Records of several types
are typed one part at a time. The models have no loop to reason about: what a
list of events makes of the notes is a closed form (`Played`), and the handler that answers is the one in front of all
others whose prefix fits (`Before`). The loop of a frame of Tetris takes two turns at most, which the model has one after the other; the tables of
pieces and kicks are looked at once (`PartsPlaced`, `KicksTyped`), and all that is used of them afterwards is that a
piece has four parts at four places.

Left to TLC:

- all liveness, since TLAPS has neither fairness nor ENABLED, and with it the temporal half of the refinements;
- that the instances are the repository's own programs, which are the configurations' to say.

## Disagreements

Four assertions or comments of the code are not true of it; each has a run in which TLC finds the steps, and a row in
`PROJECT.json` ("findings").

1. `ConsoleShutdownService.cpp:85`: the signal handler asks for the local level of its service, which runs before
   the proactor does and after it has begun to stop, and calls `RequestStop`, which may be called when the proactor is
   `RUNNING`. A signal during the start, or a second one, fails the assertion.
2. `HttpServer.cpp:109`: `AsyncStop` asserts a pending accept, but a listener whose bind or accept has failed is kept.
3. `WebSocketClient.cpp:368`: a read that has succeeded is handled after a write's error has ended the connection, and
   starts another read, which asserts that there is one.
4. `ClientRequest.cpp:118, 208`: the port of the URL is worked out, defaulting to 80, and never used; the resolver is asked for
   the host and no service, and the connect goes to port 0.

Other weaknesses that no document of the repository contradicts, so that no run expects their absence: the client that
writes its last message with success after its read has failed makes no further attempt and never stops (`forgotten`;
`KeepsTrying` and `StopCompletes` except it); a signal on top of a handler that holds the mutex hangs (`SelfDeadlock`);
`AddUnassignedPortServer` returns `true` for a port; the lists that
`getifaddrs` allocates are never freed; a failing registration on Windows
leaves the application starting. Others:

- `WebSocketConnection.cpp:93`: `Send` does not ask whether the accept has completed. `WebSocketClient.cpp:146`: `Open` cancels no
  attempt. `UdpSocket.cpp:235` and `EnableReading`: no look at the level. `DisableReading` in the read callback destroys
  the function that runs. No owner in the repository does what they would not survive.
- `HttpClient`: nothing cancels a request, so a stop waits for the peer. `m_complete_callback` is never cleared: a callback
  that holds its own request keeps it for ever.
- `LinuxNetworkChangeService.cpp:99, 142`: an entry without an address, the list that is never freed.
  `Win32NetworkChangeService.cpp:60`: the result of the registration is dropped. `SequenceFactory.cpp:105`: an unknown name is an
  empty sequence. `Renderer.cpp:135`: `assert(false || "...")` is true. `SimpleSynth.cpp:102`: note 127 lies behind the array.
- `FadecandyClient`: the frame of a write that fails is dropped; the next one comes in 30 ms.
- `SsdpSearch.cpp:73, 130`: a search is not restarted by a change of the network, only its slow timer asks the new interface.
- Audio: a `NOTE_ON` of velocity 0 is taken as a note; a key pressed while its note fades is silent until it is pressed
  again; `WindowAudioThread`'s own event is never used.
- Miami Nights: pages take every message with a held button as a click (`Buttons.ts:155`), so that a button that is held
  starts the emulator again when it has ended; `_doFrame` throws while there is no screen; after a
  broken connection `EmulatorCompleted` may reach the menu, which starts a second music and then shows the logo behind a
  running emulator (`EmulatorHasScreen` is stated of runs without a break).
- Tetris: a kick can make `fits` look above the board, which is a `TypeError` in the middle of a frame, with the piece turned and
  not drawn; the next frame goes on from there. A game also reaches what the comment at `TetrisGame.ts:317` calls impossible.
  After a lock the buttons are reset "so you need to press again" (332), yet letting go of the other button then turns the new
  piece. A drop goes to the shadow of before this frame's move.
- Debug web site: after its own close on a message it does not understand, or at its stop, what was asked for stays on
  until another page is accepted, and its error report never reaches the page; a `DebugEnable` constructed later starts off.

## Limits

- The order of posted handlers is open in `ResourceLifecycle`, which is more than the io_service does; in
  `ThreadPool`, `OneShotWork` and `Win32NetworkChange` it is the io_service's, first in first out, because the code relies
  on it.
- A reference whose owner lies above the service it refers to would make both wait for each other at the stop. No
  program of the repository has one, and the instance of `lifecycle` has none. The theorems hold for it, as they are about safety.
- The console model takes signals between two of the proactor's handlers and in the critical sections of the constructor
  and destructor, not within handlers. The Windows handler posts and is left out.
- `Win32NetworkChange` has no failing registration and no failing query.
- `NetworkChange` lets the owner of a handler read the adapters in the step in which the handler joins; in the code
  nothing runs in between that changes them.
- `HttpServer`: handlers answer synchronously, as all of the repository's do; prefixes are distinct, which `Login` asserts;
  a web socket that the server itself would close at the stop does not occur, since owners stop first (`SocketsOwned`
  shows it). Bodies and headers are left out, except whether a request is an upgrade and whether a response closes.
- `ServerWebSocket`: owners send on open connections only, as all do.
- `WebSocketClient`: the address is left out; an `Open` during an attempt goes on with the earlier one in the code.
- `Renderer`: a transition's progress is an integer division as in `Swipe`; `LinearFade` and `RandomDither` divide
  other ranges the same way. `Immediate` takes no time and no sequence uses it. Pixels and the hardware are left out.

- `HttpClient`: headers and contents are data; the connect has both outcomes whatever the port.
- `FadecandyClient`: the reconnect timer (1 s, 30 s) does not expire before the next frame (30 ms), nor between the stop of
  `RenderService` and that of the client. So a frame is pending when a connect ends. A connect that succeeded during the stop
  without one would leave the client stopping, as `ConnectComplete` looks at the stop only after an error.
- `UdpSocket`: the owner enables reading in a running socket only, as all do.
- `SsdpDiscovery`: adverts and searches are in separate builds, which share the interfaces but no state of
  their own. A scheduled check runs within the seconds between two timeouts of an advert (`Due`); a proactor that is busy for
  longer would send an announcement less. What the neighbours heard from an address goes with the interface's slot; in
  reality they keep it until its max-age, which matters only for an address that is away while its advert stops.
- `AudioThread`: a keyboard that was opened and could not be started (`MidiIn.cpp:49`) counts as none; it is assumed to
  have said so (`MIM_CLOSE`) before the stop. Waveforms
  and velocities are left out.
- `MiamiNights`: the vJoy driver is there (`m_enabled`, `EmulatorJoystick.cpp:39`). Without it nothing is acquired, and neither back nor
  an idle time ends an emulator, so that `ScreenReturns` speaks of an enabled joystick only. The server asks for what it has missed only when both sockets are open. The pages' pictures and timers are
  left out except the countdown and the retries. `Play` only shortens a countdown.
- `Tetris`: score and drawing are left out; the model ends at the `TypeError`, after checking what is on the board then.
- `DebugStreams` and `DebugWebsite` are side by side: a report may complete at any time of the site's. Queries, targets' log
  ins and HTML are left out.
- A second signal, `ConsoleShutdownService.cpp:27`: the mutex is not recursive, and a handler that interrupts its holder hangs;
  the model has it, as `SelfDeadlock`, and the properties except it.

## Not modelled

`PROJECT.json` ("components") has the reason of each part. In sum: most of the lines of the repository are third-party sources
(JSON, XML, Lua, Snappy), fonts and other tables, generators of build files, and the IDL compiler, which run once over a file
and have no state anybody else sees. HTTP messages, addresses, encodings and string utilities are values: what can
be wrong there is in strings of any length, which the unit tests sample better than TLC would. The GPIO client and the
Lua wrapper pass data on. Patterns paint pixels from a timestamp without a state. What is left of the programs'
own control is modelled, apart from what "Limits" and the components that are `partly` name.
