-------------------------- MODULE ResourceLifecycle --------------------------
(***************************************************************************)
(* The resource hierarchy of BBoxRt: every Proactor, Service and Resource  *)
(* is a ResourceBase that keeps two run levels.  The overall level is what *)
(* RequestStart and RequestStop drive, the local level is what the object  *)
(* itself reports with NotifyStarted and NotifyStopped.  Nothing moves a   *)
(* level further except HandleUpdateWork, a handler that each of these     *)
(* calls posts to the proactor's io_service and that is posted at most     *)
(* once at a time (m_work_requested).                                      *)
(*                                                                         *)
(* One action stands for one handler that the io_service runs.  All of     *)
(* them run in the thread that called Proactor::Run, so each is atomic,    *)
(* but the order of the posted ones is left open.  The specification       *)
(* starts when the constructors have run: the services are CONSTRUCTED,    *)
(* the resources that are members of a service are RUNNING.                *)
(***************************************************************************)
EXTENDS Naturals, FiniteSets

CONSTANTS
    Service,        \* objects of the classes Proactor and Service
    Resource,       \* objects of the class Resource
    Root,           \* the Proactor
    Parent,         \* m_parent_ptr of every object but the proactor
    Reference,      \* the services that are GenericServiceReferences
    RefTarget,      \* the service that implements a reference
    DependsOn,      \* <<c, p>>: c.SetThisDependantOn(p), p resolved
    Member,         \* resources constructed together with their parent
    Prompt          \* objects whose HandleStarting and HandleStopping
                    \* complete before they return

Node == Service \cup Resource

ASSUME TopologyAssumption ==
    /\ Service \cap Resource = {}
    /\ Root \in Service
    /\ Parent \in [Node \ {Root} -> Node]
    /\ \A s \in Service \ {Root} : Parent[s] \in Service
    /\ Reference \subseteq Service \ {Root}
    /\ RefTarget \in [Reference -> Service]
    /\ DependsOn \subseteq Service \X Service
    /\ Member \subseteq Resource
    /\ \A r \in Member : Parent[r] \in Service \cup Member
    /\ Prompt \subseteq Node
    \* A parent is constructed before its children, the proactor first.
    /\ \A S \in SUBSET Node :
          (Root \in S /\ \A n \in Node \ {Root} : Parent[n] \in S => n \in S) => S = Node

Level == {"CONSTRUCTED", "STARTING", "RUNNING", "STOPPING", "STOPPED"}

VARIABLES
    exists,     \* the objects that have been constructed and not destroyed
    overall,    \* m_overall_level
    local,      \* m_local_level
    work,       \* the objects with m_work_requested set
    connected,  \* the references point at their implementing services
    run         \* where the thread is in Proactor::Run

vars == <<exists, overall, local, work, connected, run>>

-----------------------------------------------------------------------------
(***************************************************************************)
(* The relations HandleUpdateWork walks: m_children, m_references_from     *)
(* together with the proactor's m_references, m_dependant_on_them and      *)
(* m_dependant_on_us.                                                      *)
(***************************************************************************)

Children(n) == {c \in exists \ {Root} : Parent[c] = n}
ParentOf(n) == IF n = Root THEN {} ELSE {Parent[n]}

\* Mutant: only a service's own references by dependency are told.
ReferencedForgotten(n) == {n} \ {n}

Referenced(n)  == {RefTarget[r] : r \in {q \in Reference : Parent[q] = n}}
Referencing(n) == {Parent[r] : r \in {q \in Reference : RefTarget[q] = n}}

DependantOnThem(n) == {p \in Service : <<n, p>> \in DependsOn}
DependantOnUs(n)   == {c \in Service : <<c, n>> \in DependsOn}

\* The services a service uses, and those that use it, by either means.
Providers(n) == Referenced(n) \cup DependantOnThem(n)
Clients(n)   == Referencing(n) \cup DependantOnUs(n)

\* The overall levels after RequestStart or RequestStop of a set of objects.
Raised(lvl, set, to) == [n \in Node |-> IF n \in set THEN to ELSE lvl[n]]

-----------------------------------------------------------------------------
Init ==
    /\ exists = Service \cup Member
    /\ overall = [n \in Node |-> IF n \in Service THEN "CONSTRUCTED" ELSE "RUNNING"]
    /\ local = overall
    /\ work = {}
    /\ connected = FALSE
    /\ run = "constructed"

(***************************************************************************)
(* Proactor::Run: connect the references, request the start of the         *)
(* proactor and enter io_service::run.                                     *)
(***************************************************************************)
Run ==
    /\ run = "constructed"
    /\ overall[Root] = "CONSTRUCTED"
    /\ run' = "running"
    /\ connected' = TRUE
    /\ overall' = [overall EXCEPT ![Root] = "STARTING"]
    /\ work' = work \cup {Root}
    /\ UNCHANGED <<exists, local>>

(***************************************************************************)
(* HandleUpdateWork, one action per branch.                                *)
(***************************************************************************)

Dispatch(n) == run = "running" /\ n \in work

\* overall == local: the work was triggered but is not needed.
UpdateStable(n) ==
    /\ Dispatch(n)
    /\ overall[n] = local[n]
    /\ work' = work \ {n}
    /\ UNCHANGED <<exists, overall, local, connected, run>>

\* Mutant: the children are started but not waited for.
PrerequisitesWithoutChildren(n) == \A m \in Providers(n) : overall[m] = "RUNNING"

PrerequisitesRunning(n) ==
    \A m \in Children(n) \cup Providers(n) : overall[m] = "RUNNING"

\* STARTING, CONSTRUCTED: start the children; when everything needed runs,
\* call HandleStarting.
UpdateStarting(n) ==
    /\ Dispatch(n)
    /\ overall[n] = "STARTING" /\ local[n] = "CONSTRUCTED"
    /\ LET fresh  == {c \in Children(n) : overall[c] = "CONSTRUCTED"}
           ready  == PrerequisitesRunning(n)
           prompt == ready /\ n \in Prompt
       IN  /\ overall' = Raised(overall, fresh, "STARTING")
           /\ local' = IF ready
                       THEN [local EXCEPT ![n] = IF prompt THEN "RUNNING" ELSE "STARTING"]
                       ELSE local
           /\ work' = (work \ {n}) \cup fresh \cup (IF prompt THEN {n} ELSE {})
    /\ UNCHANGED <<exists, connected, run>>

\* STARTING, RUNNING: NotifyStarted has been called; tell the parent and the
\* users of this service.
UpdateStarted(n) ==
    /\ Dispatch(n)
    /\ overall[n] = "STARTING" /\ local[n] = "RUNNING"
    /\ overall' = [overall EXCEPT ![n] = "RUNNING"]
    /\ work' = (work \ {n}) \cup ParentOf(n) \cup Referencing(n)
                 \cup {c \in DependantOnUs(n) : overall[c] = "STARTING"}
    /\ UNCHANGED <<exists, local, connected, run>>

\* NotifyStopped and RequestStopAllChildren, which every class calls in the
\* same handler; lvl and w are the overall levels and the posted work so far.
CompleteStop(n, lvl, w) ==
    LET kids == {c \in Children(n) : lvl[c] = "RUNNING"}
    IN  /\ local' = [local EXCEPT ![n] = "STOPPED"]
        /\ overall' = Raised(lvl, kids, "STOPPING")
        /\ work' = w \cup {n} \cup kids

\* Mutant: the users that hold a reference are not waited for.
ClientsStoppedOwn(n) == \A c \in DependantOnUs(n) \ Referencing(n) : overall[c] = "STOPPED"

ClientsStopped(n) == \A c \in Clients(n) : overall[c] = "STOPPED"

\* STOPPING, RUNNING: call HandleStopping once all users have stopped.
UpdateStopping(n) ==
    /\ Dispatch(n)
    /\ overall[n] = "STOPPING" /\ local[n] = "RUNNING"
    /\ IF ~ClientsStopped(n)
       THEN work' = work \ {n} /\ UNCHANGED <<overall, local>>
       ELSE IF n \in Prompt
            THEN CompleteStop(n, overall, work \ {n})
            ELSE /\ local' = [local EXCEPT ![n] = "STOPPING"]
                 /\ work' = work \ {n}
                 /\ UNCHANGED overall
    /\ UNCHANGED <<exists, connected, run>>

\* Mutant: a child that has been asked to stop counts as stopped.
ChildrenStopping(n) == \A c \in Children(n) : overall[c] # "RUNNING"

ChildrenStopped(n) == \A c \in Children(n) : overall[c] = "STOPPED"

\* STOPPING, STOPPED: the object is stopped when its children are; the
\* proactor then lets io_service::run return and disconnects the references.
UpdateStopped(n) ==
    /\ Dispatch(n)
    /\ overall[n] = "STOPPING" /\ local[n] = "STOPPED"
    /\ IF ChildrenStopped(n)
       THEN /\ overall' = [overall EXCEPT ![n] = "STOPPED"]
            /\ work' = (work \ {n}) \cup ParentOf(n)
                         \cup (IF connected THEN Referenced(n) ELSE {})
                         \cup {p \in DependantOnThem(n) : overall[p] = "STOPPING"}
            /\ connected' = (connected /\ n # Root)
       ELSE work' = work \ {n} /\ UNCHANGED <<overall, connected>>
    /\ UNCHANGED <<exists, local, run>>

\* Any other pair of levels is BBOX_ASSERT(false) in the code.
Unsupported(n) ==
    /\ overall[n] # local[n]
    /\ <<overall[n], local[n]>> \notin
         {<<"STARTING", "CONSTRUCTED">>, <<"STARTING", "RUNNING">>,
          <<"STOPPING", "RUNNING">>, <<"STOPPING", "STOPPED">>}

HandleUpdateWork(n) ==
    \/ UpdateStable(n) \/ UpdateStarting(n) \/ UpdateStarted(n)
    \/ UpdateStopping(n) \/ UpdateStopped(n)

(***************************************************************************)
(* Completions of the objects that are not Prompt: a listener that opened, *)
(* a thread that ended, a last outstanding callback.                       *)
(***************************************************************************)

NotifyStarted(n) ==
    /\ run = "running"
    /\ n \in exists \ Prompt
    /\ overall[n] = "STARTING" /\ local[n] = "STARTING"
    /\ local' = [local EXCEPT ![n] = "RUNNING"]
    /\ work' = work \cup {n}
    /\ UNCHANGED <<exists, overall, connected, run>>

NotifyStopped(n) ==
    /\ run = "running"
    /\ n \in exists \ Prompt
    /\ overall[n] = "STOPPING" /\ local[n] = "STOPPING"
    /\ CompleteStop(n, overall, work)
    /\ UNCHANGED <<exists, connected, run>>

(***************************************************************************)
(* Requests of the program: stop the proactor, stop one child, construct a *)
(* resource and destroy one.                                               *)
(***************************************************************************)

\* Mutant: the request is recorded and its work not posted.
RequestStopUnposted(n) ==
    /\ overall[n] = "RUNNING"
    /\ overall' = [overall EXCEPT ![n] = "STOPPING"]
    /\ UNCHANGED <<exists, local, work, connected, run>>

\* Mutant: a second request is accepted, whatever the level.
RequestStopAnytime(n) ==
    /\ overall' = [overall EXCEPT ![n] = "STOPPING"]
    /\ work' = work \cup {n}
    /\ UNCHANGED <<exists, local, connected, run>>

RequestStop(n) ==
    /\ overall[n] = "RUNNING"
    /\ overall' = [overall EXCEPT ![n] = "STOPPING"]
    /\ work' = work \cup {n}
    /\ UNCHANGED <<exists, local, connected, run>>

Shutdown == run = "running" /\ RequestStop(Root)

\* A running owner stops one of its resources; a stopping owner may stop any
\* child before it stops the rest.
OwnerStop(n) ==
    /\ run = "running"
    /\ n \in exists \ {Root}
    /\ \/ local[Parent[n]] = "STOPPING"
       \/ n \in Resource \ Member /\ local[Parent[n]] = "RUNNING"
    /\ RequestStop(n)

Construct(r) ==
    /\ run = "running"
    /\ r \in Resource \ exists
    /\ Parent[r] \in exists
    /\ local[Parent[r]] \in {"STARTING", "RUNNING", "STOPPING"}
    /\ exists' = exists \cup {r}
    /\ overall' = [overall EXCEPT ![r] = "RUNNING"]
    /\ local' = [local EXCEPT ![r] = "RUNNING"]
    /\ UNCHANGED <<work, connected, run>>

\* Mutant: the owner destroys a resource it has only asked to stop.
DestroyEarly(r) ==
    /\ run = "running"
    /\ r \in (Resource \ Member) \cap exists
    /\ overall[r] # "RUNNING"
    /\ Children(r) = {}
    /\ exists' = exists \ {r}
    /\ UNCHANGED <<overall, local, work, connected, run>>

\* The destructor, called by the owner of a stopped resource.
Destroy(r) ==
    /\ run = "running"
    /\ r \in (Resource \ Member) \cap exists
    /\ overall[r] = "STOPPED"
    /\ Children(r) = {}
    /\ exists' = exists \ {r}
    /\ UNCHANGED <<overall, local, work, connected, run>>

\* io_service::run returns when the work object is gone and no handler is left.
RunReturns ==
    /\ run = "running"
    /\ overall[Root] = "STOPPED" /\ work = {}
    /\ run' = "returned"
    /\ UNCHANGED <<exists, overall, local, work, connected>>

Step(n) ==
    \/ HandleUpdateWork(n) \/ NotifyStarted(n) \/ NotifyStopped(n)
    \/ OwnerStop(n) \/ Construct(n) \/ Destroy(n)

\* main returns from Proactor::Run: nothing is left to do.
Terminated == run = "returned" /\ UNCHANGED vars

Next == Run \/ Shutdown \/ RunReturns \/ Terminated \/ \E n \in Node : Step(n)

Spec == Init /\ [][Next]_vars

(***************************************************************************)
(* The thread keeps running posted handlers, and what a service waits for  *)
(* (a listener, a worker thread, a callback) happens in the end.  Nobody   *)
(* is obliged to request a stop.                                           *)
(***************************************************************************)
Fairness ==
    /\ WF_vars(Run)
    /\ WF_vars(RunReturns)
    /\ \A n \in Node : /\ WF_vars(HandleUpdateWork(n))
                       /\ WF_vars(NotifyStarted(n))
                       /\ WF_vars(NotifyStopped(n))

FairSpec == Spec /\ Fairness

-----------------------------------------------------------------------------
(***************************************************************************)
(* Properties.                                                             *)
(***************************************************************************)

\* The variables have their types; a destroyed or unborn resource keeps the
\* levels it had, and no work is posted for it.
TypeOK ==
    /\ exists \subseteq Node /\ Service \subseteq exists
    /\ overall \in [Node -> Level]
    /\ local \in [Node -> Level]
    /\ work \subseteq exists
    /\ connected \in BOOLEAN
    /\ run \in {"constructed", "running", "returned"}

\* Legal pairs of levels: the final else of HandleUpdateWork, which asserts
\* false, cannot be reached, whatever order the handlers run in.
NoUnsupportedTransition == \A n \in exists : ~Unsupported(n)

\* The assertion of RequestStopAllChildren: an object that may still stop its
\* children has none that is constructed or starting.
StoppableChildren ==
    \A n \in exists : local[n] \in {"RUNNING", "STOPPING"} =>
        \A c \in Children(n) : overall[c] \in {"RUNNING", "STOPPING", "STOPPED"}

\* The assertions of ResourceBase about levels hold, in whatever order the
\* posted handlers run and the owners construct, stop and destroy resources.
NoAssertionFails == NoUnsupportedTransition /\ StoppableChildren

\* A service that has been told to start and has not stopped for good finds
\* every service it depends on, by SetThisDependantOn or by a reference,
\* neither starting up nor told to stop.
ProviderAvailable ==
    \A c \in Service : \A p \in Providers(c) :
        (local[c] # "CONSTRUCTED" /\ overall[c] # "STOPPED") => local[p] = "RUNNING"

\* Until a service is told to stop, the services below it that it started
\* before itself are still fully running.
ChildServicesRunning ==
    \A c \in Service \ {Root} :
        local[Parent[c]] \in {"STARTING", "RUNNING"} => overall[c] = "RUNNING"

\* What start and stop order are for: a service's own code always finds the
\* services it uses, and those below it, fully running.
ServicesAvailable == ProviderAvailable /\ ChildServicesRunning

\* No wakeup is lost: an object that HandleUpdateWork could take further has
\* that handler posted, so nobody waits for an event that already happened.
Progressable(n) ==
    \/ overall[n] = "STARTING" /\ local[n] = "CONSTRUCTED"
         /\ (PrerequisitesRunning(n) \/ \E c \in Children(n) : overall[c] = "CONSTRUCTED")
    \/ overall[n] = "STARTING" /\ local[n] = "RUNNING"
    \/ overall[n] = "STOPPING" /\ local[n] = "RUNNING" /\ ClientsStopped(n)
    \/ overall[n] = "STOPPING" /\ local[n] = "STOPPED" /\ ChildrenStopped(n)

NoLostWakeup == \A n \in exists : Progressable(n) => n \in work

\* The destructor asserts that the object is stopped, that its children are
\* gone and that no work is requested: an object that reached STOPPED has no
\* handler posted that would run on a destroyed object, and its children,
\* which may be destroyed after it is noticed, have all stopped.
StoppedIsQuiet ==
    \A n \in exists : overall[n] = "STOPPED" =>
        n \notin work /\ ChildrenStopped(n)

\* Run returns only when every object has stopped (the UnitTestRunner's
\* destructor asserts it of the proactor).
ReturnsStopped == run = "returned" => \A n \in exists : overall[n] = "STOPPED"

\* A stop leaves nothing behind: no handler on an object its owner may now
\* destroy, nothing running below it, nothing running after Run.
StopIsComplete == StoppedIsQuiet /\ ReturnsStopped

\* The levels of an object never go back as long as it exists.
Rank == [CONSTRUCTED |-> 0, STARTING |-> 1, RUNNING |-> 2, STOPPING |-> 3, STOPPED |-> 4]

LevelsAdvance ==
    [][\A n \in exists \cap exists' :
          Rank[overall[n]] <= Rank[overall'[n]] /\ Rank[local[n]] <= Rank[local'[n]]]_vars

\* Every service and the proactor itself come up.
StartCompletes == <>(overall[Root] # "CONSTRUCTED" /\ overall[Root] # "STARTING")

\* A requested shutdown ends: everything stops, in dependency order, and Run
\* returns.
StopCompletes == overall[Root] = "STOPPING" ~> run = "returned"

\* No service waits for ever for another one, neither on the way up nor on
\* the way down.
StartsAndStops == StartCompletes /\ StopCompletes

-----------------------------------------------------------------------------
(***************************************************************************)
(* The hierarchy implements LifecycleContract: status forgets the levels,  *)
(* the requests and the posted work.                                       *)
(***************************************************************************)
status ==
    [n \in Node |->
        IF n \notin exists THEN "absent"
        ELSE IF overall[n] = "STOPPED" THEN "gone"
        ELSE IF local[n] = "CONSTRUCTED" THEN "offline"
        ELSE IF local[n] \in {"STARTING", "RUNNING"} THEN "online" ELSE "leaving"]

Promise == INSTANCE LifecycleContract WITH
              Uses <- {u \in Service \X Service : u[2] \in Providers(u[1])}

\* Start and stop happen in the order the contract promises, and a stop ends.
ImplementsContract == Promise!Contract
=============================================================================
