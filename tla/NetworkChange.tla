---------------------------- MODULE NetworkChange ----------------------------
(***************************************************************************)
(* LinuxNetworkChangeService asks a thread of the pool for the network     *)
(* adapters, compares them with those it knows, tells its handlers of a    *)
(* change, and asks again ten seconds later.  NetworkChangeHandlers, the   *)
(* services that refer to it, join when they start and leave when they     *)
(* stop; a handler's owner reads the adapters when it starts and when it   *)
(* is told.  The timer is a Trigger and the pool a WorkService here.       *)
(***************************************************************************)
EXTENDS Naturals, FiniteSets, NetworkAdapters

CONSTANT Handlers   \* the NetworkChangeHandlers

VARIABLES
    world,      \* the adapters there are
    failing,    \* getifaddrs fails at present
    level,      \* the service's local run level
    stopping,   \* its RequestStop has been called
    detecting,  \* m_detection_in_progress
    timer,      \* m_detection_timer is running
    thread,     \* the pool's work for the service
    scan,       \* m_detecting_adapters
    current,    \* m_current_adapters
    members,    \* m_handlers
    hlevel,     \* the local run level of each handler
    told        \* the adapters each handler's owner has read last

env == <<world, failing>>
svc == <<level, stopping, detecting, timer, current>>
pool == <<thread, scan>>
hnd == <<members, hlevel, told>>
vars == <<env, svc, pool, hnd>>

Init ==
    /\ world \in Adapters /\ failing = FALSE
    /\ level = "CONSTRUCTED" /\ stopping = FALSE
    /\ detecting = FALSE /\ timer = FALSE
    /\ thread = "idle" /\ scan = None
    /\ current = None
    /\ members = {} /\ hlevel = [h \in Handlers |-> "CONSTRUCTED"]
    /\ told = [h \in Handlers |-> None]

-----------------------------------------------------------------------------
\* Adapters come and go, and queries fail for a while.
Change ==
    /\ \/ world' \in Adapters \ {world} /\ UNCHANGED failing
       \/ failing' = ~failing /\ UNCHANGED world
    /\ UNCHANGED <<svc, pool, hnd>>

RunOnThread == detecting' = TRUE /\ thread' = "queued"

HandleStarting ==
    /\ level = "CONSTRUCTED" /\ level' = "STARTING"
    /\ RunOnThread
    /\ UNCHANGED <<env, stopping, timer, scan, current, hnd>>

\* In the pool's thread: clear the adapters and fill in what getifaddrs says.
DoDetectionInThreadPool ==
    /\ thread = "queued" /\ thread' = "done"
    /\ scan' = IF failing THEN None ELSE world
    /\ UNCHANGED <<env, svc, hnd>>

\* Mutant: the handlers are told before the adapters are kept.
ReportChangeEarly ==
    IF scan # current \/ level = "STARTING"
    THEN /\ current' = scan /\ scan' = None
         /\ told' = [h \in Handlers |-> IF h \in members THEN current ELSE told[h]]
    ELSE UNCHANGED <<current, scan, told>>

\* The adapters are moved from m_detecting_adapters when they have changed.
ReportChange ==
    IF scan # current \/ level = "STARTING"
    THEN /\ current' = scan /\ scan' = None
         /\ told' = [h \in Handlers |-> IF h \in members THEN scan ELSE told[h]]
    ELSE UNCHANGED <<current, scan, told>>

\* Mutant: the timer is left running.
CheckShutdownUncancelled(l, det, tim) ==
    /\ level' = IF l = "STOPPING" /\ ~det THEN "STOPPED" ELSE l
    /\ timer' = tim

CheckShutdown(l, det, tim) ==
    /\ level' = IF l = "STOPPING" /\ ~det THEN "STOPPED" ELSE l
    /\ timer' = (tim /\ ~(l = "STOPPING" /\ ~det))

\* Mutant: the timer is only started with the service.
HandleDetectionCompletedOnce ==
    /\ thread = "done" /\ thread' = "idle"
    /\ detecting' = FALSE
    /\ ReportChange
    /\ CheckShutdown(IF level = "STARTING" THEN "RUNNING" ELSE level, FALSE, level = "STARTING")
    /\ UNCHANGED <<env, stopping, members, hlevel>>

\* Mutant: a stop that waits for the detection is not completed after it.
HandleDetectionCompletedUnchecked ==
    /\ thread = "done" /\ thread' = "idle"
    /\ detecting' = FALSE /\ timer' = TRUE
    /\ ReportChange
    /\ level' = IF level = "STARTING" THEN "RUNNING" ELSE level
    /\ UNCHANGED <<env, stopping, members, hlevel>>

\* Start the timer, tell the handlers, report the start or complete the stop.
HandleDetectionCompleted ==
    /\ thread = "done" /\ thread' = "idle"
    /\ detecting' = FALSE
    /\ ReportChange
    /\ CheckShutdown(IF level = "STARTING" THEN "RUNNING" ELSE level, FALSE, TRUE)
    /\ UNCHANGED <<env, stopping, members, hlevel>>

HandleDetectionTimerExpired ==
    /\ timer /\ timer' = FALSE
    /\ RunOnThread
    /\ UNCHANGED <<env, level, stopping, scan, current, hnd>>

\* The application is told to stop once all its services run.
RequestStop ==
    /\ level = "RUNNING" /\ \A h \in Handlers : hlevel[h] = "RUNNING"
    /\ ~stopping /\ stopping' = TRUE
    /\ UNCHANGED <<env, level, detecting, timer, current, pool, hnd>>

\* The service stops after everything that refers to it.
HandleStopping ==
    /\ stopping /\ level = "RUNNING" /\ \A h \in Handlers : hlevel[h] = "STOPPED"
    /\ CheckShutdown("STOPPING", detecting, timer)
    /\ UNCHANGED <<env, stopping, detecting, current, pool, hnd>>

-----------------------------------------------------------------------------
\* NetworkChangeHandler::HandleStarting, once the service runs; the owner
\* starts after it and calls GetCurrentAdapterInfo.
HandlerStarting(h) ==
    /\ level = "RUNNING" /\ hlevel[h] = "CONSTRUCTED"
    /\ members' = members \cup {h}
    /\ hlevel' = [hlevel EXCEPT ![h] = "RUNNING"]
    /\ told' = [told EXCEPT ![h] = current]
    /\ UNCHANGED <<env, svc, pool>>

\* NetworkChangeHandler::HandleStopping
HandlerStopping(h) ==
    /\ stopping /\ hlevel[h] = "RUNNING"
    /\ members' = members \ {h}
    /\ hlevel' = [hlevel EXCEPT ![h] = "STOPPED"]
    /\ UNCHANGED <<env, svc, pool, told>>

-----------------------------------------------------------------------------
Stopped == level = "STOPPED" /\ UNCHANGED vars

Next ==
    \/ Change \/ HandleStarting \/ DoDetectionInThreadPool \/ HandleDetectionCompleted
    \/ HandleDetectionTimerExpired \/ RequestStop \/ HandleStopping
    \/ \E h \in Handlers : HandlerStarting(h) \/ HandlerStopping(h)
    \/ Stopped

Spec == Init /\ [][Next]_vars

\* Both threads run, time passes, and what is posted is handled.
FairSpec ==
    /\ Spec
    /\ WF_vars(HandleStarting) /\ WF_vars(DoDetectionInThreadPool)
    /\ WF_vars(HandleDetectionCompleted) /\ WF_vars(HandleDetectionTimerExpired)
    /\ WF_vars(HandleStopping)
    /\ \A h \in Handlers : WF_vars(HandlerStarting(h)) /\ WF_vars(HandlerStopping(h))

-----------------------------------------------------------------------------
Levels == {"CONSTRUCTED", "STARTING", "RUNNING", "STOPPING", "STOPPED"}

\* The variables have their types.
TypeOK ==
    /\ world \in Adapters /\ failing \in BOOLEAN
    /\ level \in Levels /\ stopping \in BOOLEAN
    /\ detecting \in BOOLEAN /\ timer \in BOOLEAN
    /\ thread \in {"idle", "queued", "done"}
    /\ scan \in Adapters /\ current \in Adapters
    /\ members \subseteq Handlers
    /\ hlevel \in [Handlers -> {"CONSTRUCTED", "RUNNING", "STOPPED"}]
    /\ told \in [Handlers -> Adapters]

\* A service that runs is either detecting or waiting for its timer, never both
\* and never neither, so that the assertions on m_detection_in_progress hold
\* and m_detecting_adapters is used by one thread at a time; a stopped one has
\* no work in the pool and no running timer, as Timer::HandleStopping demands.
DetectingOrWaiting ==
    /\ detecting <=> thread # "idle"
    /\ level = "RUNNING" => (detecting <=> ~timer)
    /\ timer => level = "RUNNING"
    /\ level = "STOPPED" => thread = "idle"

\* Handlers are members exactly while they run, which is while the service
\* does, and no member is left when the service is destroyed.
MembersRun ==
    /\ members = {h \in Handlers : hlevel[h] = "RUNNING"}
    /\ members # {} => level = "RUNNING"

\* What the owner of a running handler has read is what the service knows.
MembersCurrent == \A h \in members : told[h] = current

\* The service is busy with exactly one thing, and its variables have their types.
OneAtATime == TypeOK /\ DetectingOrWaiting

\* The handlers that run are those that are told, and they have been told
\* everything, at whatever point of a detection they came.
MembersInformed == MembersRun /\ MembersCurrent

\* Once the adapters stay as they are, and the queries succeed, every handler
\* of a service that goes on running knows them.
Converges ==
    \A a \in Adapters :
        <>[](world = a /\ ~failing /\ level = "RUNNING")
            => <>[](current = a /\ \A h \in members : told[h] = a)

\* The service reports its start, and a stop completes, at any point of the
\* detection.
StartsAndStops ==
    /\ <>(level = "RUNNING")
    /\ stopping ~> level = "STOPPED"
=============================================================================
