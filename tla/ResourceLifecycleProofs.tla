------------------------ MODULE ResourceLifecycleProofs ------------------------
(***************************************************************************)
(* Proofs about ResourceLifecycle for every hierarchy that satisfies       *)
(* TopologyAssumption: any number of objects, any parents, references and  *)
(* dependencies, cyclic ones included.                                     *)
(***************************************************************************)
EXTENDS ResourceLifecycle, TLAPS

USE TopologyAssumption

(***************************************************************************)
(* The inductive invariant.  LevelPairs says which levels go together; the *)
(* rest says how the levels of an object constrain those of its parent and *)
(* of the services it uses.                                                *)
(***************************************************************************)
LevelPair ==
    {<<"CONSTRUCTED", "CONSTRUCTED">>, <<"STARTING", "CONSTRUCTED">>,
     <<"STARTING", "STARTING">>, <<"STARTING", "RUNNING">>,
     <<"RUNNING", "RUNNING">>, <<"STOPPING", "RUNNING">>,
     <<"STOPPING", "STOPPING">>, <<"STOPPING", "STOPPED">>,
     <<"STOPPED", "STOPPED">>}

Types ==
    /\ exists \subseteq Node /\ Service \subseteq exists
    /\ overall \in [Node -> Level]
    /\ local \in [Node -> Level]
    /\ work \subseteq Node
    /\ connected \in BOOLEAN
    /\ run \in {"constructed", "running", "returned"}

LevelPairs == \A n \in Node : <<overall[n], local[n]>> \in LevelPair

\* A resource is never started, only stopped.
ResourcesStarted ==
    \A r \in Resource : /\ local[r] \notin {"CONSTRUCTED", "STARTING"}
                         /\ overall[r] \notin {"CONSTRUCTED", "STARTING"}

Core == Types /\ LevelPairs /\ ResourcesStarted

\* The relations of an object stay within the hierarchy.
LEMMA Neighbours ==
    ASSUME NEW n \in Node
    PROVE  /\ ParentOf(n) \subseteq Node
           /\ Referenced(n) \subseteq Service
           /\ Referencing(n) \subseteq Service
           /\ DependantOnThem(n) \subseteq Service
           /\ DependantOnUs(n) \subseteq Service
  BY DEF ParentOf, Referenced, Referencing, DependantOnThem, DependantOnUs, Node

LEMMA InitCore == Init => Core
<1> SUFFICES ASSUME Init PROVE Core
  OBVIOUS
<1>1. Types
  BY DEF Init, Types, Node, Level
<1>2. LevelPairs
  BY DEF Init, LevelPairs, LevelPair, Node
<1>3. ResourcesStarted
  BY DEF Init, ResourcesStarted, Node
<1> QED BY <1>1, <1>2, <1>3 DEF Core

LEMMA CoreStep == Core /\ [Next]_vars => Core'
<1> SUFFICES ASSUME Core, [Next]_vars PROVE Core'
  OBVIOUS
<1> USE DEF Core
<1>1. CASE Run
  BY <1>1 DEF Run, Types, LevelPairs, LevelPair, ResourcesStarted, Level, Node
<1>2. CASE Shutdown
  BY <1>2 DEF Shutdown, RequestStop, Types, LevelPairs, LevelPair, ResourcesStarted, Level, Node
<1>3. CASE RunReturns
  BY <1>3 DEF RunReturns, Types, LevelPairs, ResourcesStarted
<1>4. CASE Terminated
  BY <1>4 DEF Terminated, vars, Types, LevelPairs, ResourcesStarted
<1>5. CASE UNCHANGED vars
  BY <1>5 DEF vars, Types, LevelPairs, ResourcesStarted
<1>6. ASSUME NEW n \in Node, Step(n) PROVE Core'
  <2>1. CASE UpdateStable(n)
    BY <2>1 DEF UpdateStable, Types, LevelPairs, ResourcesStarted
  <2>2. CASE UpdateStarting(n)
    BY <2>2 DEF UpdateStarting, Dispatch, Raised, Children, Types, LevelPairs, LevelPair, ResourcesStarted, Level, Node
  <2>3. CASE UpdateStarted(n)
    BY <2>3 DEF UpdateStarted, Dispatch, ParentOf, Referencing, DependantOnUs, Types, LevelPairs, LevelPair, ResourcesStarted, Level, Node
  <2>4. CASE UpdateStopping(n)
    BY <2>4 DEF UpdateStopping, Dispatch, CompleteStop, Raised, Children, Types, LevelPairs, LevelPair, ResourcesStarted, Level, Node
  <2>5. CASE UpdateStopped(n)
    <3>2. Types'
      <4>1. work' \subseteq Node
        BY <2>5, Neighbours DEF UpdateStopped, Types, Node
      <4>2. overall' \in [Node -> Level]
        BY <2>5 DEF UpdateStopped, Types, Level
      <4>3. connected' \in BOOLEAN
        BY <2>5, Zenon DEF UpdateStopped, Types
      <4> QED BY <2>5, <4>1, <4>2, <4>3 DEF UpdateStopped, Types
    <3>3. LevelPairs'
      BY <2>5 DEF UpdateStopped, Dispatch, Types, LevelPairs, LevelPair
    <3>4. ResourcesStarted'
      BY <2>5 DEF UpdateStopped, ResourcesStarted, Types, Node
    <3> QED BY <3>2, <3>3, <3>4
  <2>6. CASE NotifyStarted(n)
    BY <2>6 DEF NotifyStarted, Types, LevelPairs, LevelPair, ResourcesStarted, Level, Node
  <2>7. CASE NotifyStopped(n)
    BY <2>7 DEF NotifyStopped, CompleteStop, Raised, Children, Types, LevelPairs, LevelPair, ResourcesStarted, Level, Node
  <2>8. CASE OwnerStop(n)
    BY <2>8 DEF OwnerStop, RequestStop, Types, LevelPairs, LevelPair, ResourcesStarted, Level, Node
  <2>9. CASE Construct(n)
    BY <2>9 DEF Construct, Types, LevelPairs, LevelPair, ResourcesStarted, Level, Node
  <2>10. CASE Destroy(n)
    BY <2>10 DEF Destroy, Types, LevelPairs, ResourcesStarted, Node
  <2> QED BY <1>6, <2>1, <2>2, <2>3, <2>4, <2>5, <2>6, <2>7, <2>8, <2>9, <2>10 DEF Step, HandleUpdateWork
<1> QED BY <1>1, <1>2, <1>3, <1>4, <1>5, <1>6 DEF Next

-----------------------------------------------------------------------------
(***************************************************************************)
(* How a step can change the levels of one object.  The invariants below   *)
(* follow from these facts without looking at the actions again.           *)
(***************************************************************************)
OverallMove(n) ==
    \/ overall'[n] = overall[n]
    \/ overall[n] = "CONSTRUCTED" /\ overall'[n] = "STARTING"
    \/ overall[n] = "STARTING" /\ overall'[n] = "RUNNING"
    \/ /\ overall[n] = "RUNNING" /\ overall'[n] = "STOPPING"
       /\ \/ n = Root
          \/ local'[Parent[n]] \in {"STOPPING", "STOPPED"}
          \/ n \in Resource /\ local[Parent[n]] = "RUNNING"
    \/ overall[n] = "STOPPING" /\ overall'[n] = "STOPPED"
       /\ ChildrenStopped(n)

LocalMove(n) ==
    \/ local'[n] = local[n]
    \/ local[n] = "CONSTRUCTED" /\ local'[n] \in {"STARTING", "RUNNING"} /\ PrerequisitesRunning(n)
    \/ local[n] = "STARTING" /\ local'[n] = "RUNNING"
    \/ local[n] = "RUNNING" /\ local'[n] \in {"STOPPING", "STOPPED"} /\ ClientsStopped(n)
    \/ local[n] = "STOPPING" /\ local'[n] = "STOPPED"

LEMMA Moves ==
    ASSUME Core, [Next]_vars, NEW n \in Node, n \in exists
    PROVE  OverallMove(n) /\ LocalMove(n)
<1> USE DEF Core
<1>0. Root \in Node /\ overall \in [Node -> Level] /\ local \in [Node -> Level]
  BY DEF Types, Node
<1>1. CASE Run
  BY <1>0, <1>1 DEF Run, OverallMove, LocalMove
<1>2. CASE Shutdown
  BY <1>0, <1>2 DEF Shutdown, RequestStop, OverallMove, LocalMove
<1>3. CASE RunReturns
  BY <1>3 DEF RunReturns, OverallMove, LocalMove
<1>4. CASE Terminated \/ UNCHANGED vars
  BY <1>4 DEF Terminated, vars, OverallMove, LocalMove
<1>5. ASSUME NEW m \in Node, Step(m) PROVE OverallMove(n) /\ LocalMove(n)
  <2>1. CASE UpdateStable(m)
    BY <2>1 DEF UpdateStable, OverallMove, LocalMove
  <2>2. CASE UpdateStarting(m)
    BY <1>0, <2>2 DEF UpdateStarting, Raised, OverallMove, LocalMove
  <2>3. CASE UpdateStarted(m)
    BY <1>0, <2>3 DEF UpdateStarted, OverallMove, LocalMove
  <2>4. CASE UpdateStopping(m)
    <3>1. CASE ~(ClientsStopped(m) /\ m \in Prompt)
      BY <1>0, <2>4, <3>1 DEF UpdateStopping, OverallMove, LocalMove
    <3>2. CASE ClientsStopped(m) /\ m \in Prompt
      <4>1. CompleteStop(m, overall, work \ {m})
        BY <2>4, <3>2 DEF UpdateStopping
      <4>2. overall[m] = "STOPPING" /\ local[m] = "RUNNING"
        BY <2>4 DEF UpdateStopping
      <4>3. local' = [local EXCEPT ![m] = "STOPPED"]
        BY <4>1 DEF CompleteStop
      <4>4. LocalMove(n)
        BY <1>0, <3>2, <4>2, <4>3 DEF LocalMove
      <4>5. OverallMove(n)
        <5>1. overall'[n] = IF n \in exists \ {Root} /\ Parent[n] = m /\ overall[n] = "RUNNING"
                            THEN "STOPPING" ELSE overall[n]
          BY <1>0, <4>1 DEF CompleteStop, Children, Raised
        <5>2. local'[m] = "STOPPED"
          BY <1>0, <4>3
        <5> QED BY <5>1, <5>2 DEF OverallMove
      <4> QED BY <4>4, <4>5
    <3> QED BY <3>1, <3>2
  <2>5. CASE UpdateStopped(m)
    BY <1>0, <2>5 DEF UpdateStopped, OverallMove, LocalMove
  <2>6. CASE NotifyStarted(m)
    BY <1>0, <2>6 DEF NotifyStarted, OverallMove, LocalMove
  <2>7. CASE NotifyStopped(m)
    BY <1>0, <2>7 DEF NotifyStopped, CompleteStop, Children, Raised, OverallMove, LocalMove
  <2>8. CASE OwnerStop(m)
    BY <1>0, <2>8 DEF OwnerStop, RequestStop, OverallMove, LocalMove
  <2>9. CASE Construct(m)
    BY <1>0, <2>9 DEF Construct, OverallMove, LocalMove
  <2>10. CASE Destroy(m)
    BY <2>10 DEF Destroy, OverallMove, LocalMove
  <2> QED BY <1>5, <2>1, <2>2, <2>3, <2>4, <2>5, <2>6, <2>7, <2>8, <2>9, <2>10 DEF Step, HandleUpdateWork
<1> QED BY <1>1, <1>2, <1>3, <1>4, <1>5 DEF Next

\* What exists changes by constructing and destroying resources only.
LEMMA Existence ==
    ASSUME Core, [Next]_vars
    PROVE  \/ exists' = exists
           \/ \E r \in Resource \ exists :
                /\ exists' = exists \cup {r}
                /\ overall'[r] = "RUNNING" /\ local'[r] = "RUNNING"
                /\ Parent[r] \in exists
                /\ local[Parent[r]] \in {"STARTING", "RUNNING", "STOPPING"}
                /\ work' = work
                /\ \A m \in Node \ {r} : overall'[m] = overall[m] /\ local'[m] = local[m]
           \/ \E r \in Resource \ Member :
                /\ r \in exists /\ exists' = exists \ {r}
                /\ overall[r] = "STOPPED" /\ Children(r) = {}
                /\ work' = work /\ overall' = overall /\ local' = local
<1> USE DEF Core
<1>1. CASE Run \/ Shutdown \/ RunReturns \/ Terminated \/ UNCHANGED vars
  BY <1>1 DEF Run, Shutdown, RequestStop, RunReturns, Terminated, vars
<1>2. ASSUME NEW m \in Node, Construct(m)
      PROVE  \E r \in Resource \ exists :
                /\ exists' = exists \cup {r}
                /\ overall'[r] = "RUNNING" /\ local'[r] = "RUNNING"
                /\ Parent[r] \in exists
                /\ local[Parent[r]] \in {"STARTING", "RUNNING", "STOPPING"}
                /\ work' = work
                /\ \A k \in Node \ {r} : overall'[k] = overall[k] /\ local'[k] = local[k]
  <2>1. m \in Resource \ exists
    BY <1>2 DEF Construct
  <2> QED BY <1>2, <2>1 DEF Construct, Types
<1>3. ASSUME NEW m \in Node, Destroy(m)
      PROVE  \E r \in Resource \ Member :
                /\ r \in exists /\ exists' = exists \ {r}
                /\ overall[r] = "STOPPED" /\ Children(r) = {}
                /\ work' = work /\ overall' = overall /\ local' = local
  BY <1>3 DEF Destroy
<1>4. ASSUME NEW m \in Node, HandleUpdateWork(m) \/ NotifyStarted(m) \/ NotifyStopped(m) \/ OwnerStop(m)
      PROVE  exists' = exists
  BY <1>4 DEF HandleUpdateWork, UpdateStable, UpdateStarting, UpdateStarted, UpdateStopping,
              UpdateStopped, NotifyStarted, NotifyStopped, OwnerStop, RequestStop
<1> QED BY <1>1, <1>2, <1>3, <1>4 DEF Next, Step

-----------------------------------------------------------------------------
(***************************************************************************)
(* The order of start and stop.  A service starts after everything below   *)
(* it and everything it uses, and is told to stop before what is below it  *)
(* and after everything that uses it.                                      *)
(***************************************************************************)

\* What a started service uses has been started, as has what is below it.
ProvidersStarted ==
    \A c \in Service : \A p \in Providers(c) :
        local[c] # "CONSTRUCTED" => overall[p] \notin {"CONSTRUCTED", "STARTING"}

ChildrenStarted ==
    \A c \in Service \ {Root} :
        local[Parent[c]] # "CONSTRUCTED" => overall[c] \notin {"CONSTRUCTED", "STARTING"}

\* Nothing below a service that has not been started has been told to stop.
NoEarlyStop ==
    \A c \in exists \ {Root} :
        local[Parent[c]] = "CONSTRUCTED" => overall[c] \in {"CONSTRUCTED", "STARTING", "RUNNING"}

ParentsExist == \A n \in exists \ {Root} : Parent[n] \in exists /\ (n \in Member => Parent[n] \in Service \cup Member)

MembersExist == Member \subseteq exists

Order ==
    /\ ChildServicesRunning /\ ProviderAvailable
    /\ ProvidersStarted /\ ChildrenStarted /\ NoEarlyStop
    /\ ParentsExist /\ MembersExist

LEMMA InitOrder == Init => Order
<1> SUFFICES ASSUME Init PROVE Order
  OBVIOUS
<1>1. \A s \in Service : local[s] = "CONSTRUCTED"
  BY DEF Init, Node
<1>2. \A n \in Node : overall[n] \in {"CONSTRUCTED", "RUNNING"}
  BY DEF Init, Node
<1>3. /\ exists \subseteq Node /\ Member \subseteq exists
      /\ \A c \in Service \ {Root} : local[Parent[c]] = "CONSTRUCTED"
  BY <1>1 DEF Init, Node
<1>4. ParentsExist
  <2> SUFFICES ASSUME NEW n \in exists \ {Root}
               PROVE  Parent[n] \in exists /\ (n \in Member => Parent[n] \in Service \cup Member)
    BY DEF ParentsExist
  <2>1. CASE n \in Service
    BY <2>1 DEF Init
  <2>2. CASE n \in Member
    BY <2>2 DEF Init
  <2> QED BY <2>1, <2>2 DEF Init
<1>5. ChildServicesRunning /\ ChildrenStarted
  BY <1>3 DEF ChildServicesRunning, ChildrenStarted
<1>6. ProviderAvailable /\ ProvidersStarted
  BY <1>1 DEF ProviderAvailable, ProvidersStarted
<1>7. NoEarlyStop
  BY <1>2, <1>3 DEF NoEarlyStop
<1> QED BY <1>3, <1>4, <1>5, <1>6, <1>7 DEF Order, MembersExist

\* A service exists always, so its levels move as Moves says.
LEMMA ServiceMoves ==
    ASSUME Core, [Next]_vars
    PROVE  /\ Service \subseteq exists /\ Service \subseteq Node
           /\ \A s \in Service : OverallMove(s) /\ LocalMove(s)
  BY Moves DEF Core, Types, Node

\* The two directions of the relation between users and providers agree.
LEMMA Converse ==
    ASSUME NEW c \in Service, NEW p \in Providers(c)
    PROVE  p \in Service /\ c \in Clients(p)
  BY DEF Providers, Clients, Referenced, Referencing, DependantOnThem, DependantOnUs

LEMMA OrderStep == Core /\ Order /\ [Next]_vars => Order'
<1> SUFFICES ASSUME Core, Order, [Next]_vars PROVE Order'
  OBVIOUS
<1> USE DEF Core, Order
<1>0. /\ Service \subseteq exists /\ Service \subseteq Node
      /\ \A s \in Service : OverallMove(s) /\ LocalMove(s)
      /\ \A s \in Service : <<overall[s], local[s]>> \in LevelPair
  BY ServiceMoves DEF LevelPairs
<1>a. \A c \in Service : Providers(c)' = Providers(c)
  BY DEF Providers, Referenced, DependantOnThem
<1>1. ProviderAvailable'
  <2> SUFFICES ASSUME NEW c \in Service, NEW p \in Providers(c),
                      local'[c] # "CONSTRUCTED", overall'[c] # "STOPPED"
               PROVE  local'[p] = "RUNNING"
    BY <1>a DEF ProviderAvailable
  <2>1. p \in Service /\ c \in Clients(p)
    BY Converse
  <2>2. overall[c] # "STOPPED"
    BY <1>0 DEF OverallMove
  <2>3. local[p] = "RUNNING"
    <3>1. CASE local[c] = "CONSTRUCTED"
      <4>1. overall[p] = "RUNNING"
        BY <1>0, <3>1 DEF LocalMove, PrerequisitesRunning
      <4> QED BY <1>0, <2>1, <4>1 DEF LevelPair
    <3>2. CASE local[c] # "CONSTRUCTED"
      BY <2>2, <3>2 DEF ProviderAvailable
    <3> QED BY <3>1, <3>2
  <2>4. ~ClientsStopped(p)
    BY <2>1, <2>2 DEF ClientsStopped
  <2> QED BY <1>0, <2>1, <2>3, <2>4 DEF LocalMove
<1>2. ProvidersStarted'
  <2> SUFFICES ASSUME NEW c \in Service, NEW p \in Providers(c), local'[c] # "CONSTRUCTED"
               PROVE  overall'[p] \notin {"CONSTRUCTED", "STARTING"}
    BY <1>a DEF ProvidersStarted
  <2>1. p \in Service
    BY Converse
  <2>2. overall[p] \notin {"CONSTRUCTED", "STARTING"}
    BY <1>0 DEF LocalMove, PrerequisitesRunning, ProvidersStarted
  <2> QED BY <1>0, <2>1, <2>2 DEF OverallMove
<1>3. ASSUME NEW c \in Service \ {Root}
      PROVE  /\ Parent[c] \in Service
             /\ local[Parent[c]] = "CONSTRUCTED" /\ local'[Parent[c]] # "CONSTRUCTED"
                  => overall[c] = "RUNNING"
  BY <1>0 DEF LocalMove, PrerequisitesRunning, Children
<1>4. ChildServicesRunning'
  <2> SUFFICES ASSUME NEW c \in Service \ {Root}, local'[Parent[c]] \in {"STARTING", "RUNNING"}
               PROVE  overall'[c] = "RUNNING"
    BY DEF ChildServicesRunning
  <2>1. overall[c] = "RUNNING"
    BY <1>0, <1>3 DEF LocalMove, ChildServicesRunning
  <2> QED BY <1>0, <2>1 DEF OverallMove
<1>5. ChildrenStarted'
  <2> SUFFICES ASSUME NEW c \in Service \ {Root}, local'[Parent[c]] # "CONSTRUCTED"
               PROVE  overall'[c] \notin {"CONSTRUCTED", "STARTING"}
    BY DEF ChildrenStarted
  <2>1. overall[c] \notin {"CONSTRUCTED", "STARTING"}
    BY <1>3 DEF ChildrenStarted
  <2> QED BY <1>0, <2>1 DEF OverallMove
<1>6. ParentsExist' /\ MembersExist'
  <2>1. CASE exists' = exists
    BY <2>1 DEF ParentsExist, MembersExist
  <2>2. ASSUME NEW r \in Resource \ exists, exists' = exists \cup {r}, Parent[r] \in exists
        PROVE  ParentsExist' /\ MembersExist'
    BY <2>2 DEF ParentsExist, MembersExist
  <2>3. ASSUME NEW r \in Resource \ Member, r \in exists, exists' = exists \ {r}, Children(r) = {}
        PROVE  ParentsExist' /\ MembersExist'
    BY <2>3 DEF ParentsExist, MembersExist, Children
  <2> QED BY Existence, <2>1, <2>2, <2>3
<1>7. NoEarlyStop'
  <2> SUFFICES ASSUME NEW c \in exists' \ {Root}, local'[Parent[c]] = "CONSTRUCTED"
               PROVE  overall'[c] \in {"CONSTRUCTED", "STARTING", "RUNNING"}
    BY DEF NoEarlyStop
  <2>1. CASE c \in exists
    <3>1. Parent[c] \in exists /\ c \in Node /\ Parent[c] \in Node
      BY <2>1 DEF ParentsExist, Types
    <3>2. OverallMove(c) /\ LocalMove(Parent[c])
      BY <2>1, <3>1, Moves
    <3>3. local[Parent[c]] = "CONSTRUCTED"
      BY <3>2 DEF LocalMove
    <3>4. overall[c] \in {"CONSTRUCTED", "STARTING", "RUNNING"}
      BY <2>1, <3>3 DEF NoEarlyStop
    <3> QED BY <3>2, <3>3, <3>4 DEF OverallMove
  <2>2. CASE c \notin exists
    BY <2>2, Existence
  <2> QED BY <2>1, <2>2
<1> QED BY <1>1, <1>2, <1>4, <1>5, <1>6, <1>7

-----------------------------------------------------------------------------
(***************************************************************************)
(* A stopped object is quiet, and only objects that exist have work.       *)
(***************************************************************************)
Quiet == work \subseteq exists /\ StoppedIsQuiet

LEMMA InitQuiet == Init => Quiet
  BY DEF Init, Quiet, StoppedIsQuiet, Node

\* The tree assumption: nothing is its own parent.
LEMMA NotOwnParent == \A n \in Node \ {Root} : Parent[n] # n
<1> SUFFICES ASSUME NEW n \in Node \ {Root}, Parent[n] = n PROVE FALSE
  OBVIOUS
<1>1. Root \in Node \ {n} /\ \A m \in Node \ {Root} : Parent[m] \in Node \ {n} => m \in Node \ {n}
  BY DEF Node
<1>2. Node \ {n} = Node
  BY <1>1
<1> QED BY <1>2

\* Which objects a step may post work for: none of them stopped.
LEMMA Posts ==
    ASSUME Core, Order, Quiet, [Next]_vars
    PROVE  \A n \in work' \ work : n \in exists /\ overall'[n] # "STOPPED"
<1> SUFFICES ASSUME NEW n \in work', n \notin work PROVE n \in exists /\ overall'[n] # "STOPPED"
  OBVIOUS
<1> USE DEF Core, Order
<1>0. /\ overall \in [Node -> Level] /\ local \in [Node -> Level] /\ Root \in Service
      /\ Service \subseteq exists /\ exists \subseteq Node /\ work \subseteq exists
  BY DEF Types, Quiet
<1>1. CASE Run \/ Shutdown \/ RunReturns \/ Terminated \/ UNCHANGED vars
  BY <1>0, <1>1 DEF Run, Shutdown, RequestStop, RunReturns, Terminated, vars
<1>2. ASSUME NEW m \in Node, Step(m) PROVE n \in exists /\ overall'[n] # "STOPPED"
  <2>1. CASE UpdateStable(m)
    BY <2>1 DEF UpdateStable
  <2>2. CASE UpdateStarting(m)
    BY <1>0, <2>2 DEF UpdateStarting, Dispatch, Raised, Children
  <2>3. CASE UpdateStarted(m)
    <3>1. m \in exists /\ overall[m] = "STARTING" /\ n # m
      BY <1>0, <2>3 DEF UpdateStarted, Dispatch
    <3>2. overall'[n] = overall[n] /\ n \in ParentOf(m) \cup Referencing(m) \cup DependantOnUs(m)
      BY <1>0, <2>3, <3>1, Neighbours DEF UpdateStarted
    <3>3. CASE n \in ParentOf(m)
      <4>1. m # Root /\ n = Parent[m] /\ n \in exists
        BY <3>1, <3>3 DEF ParentOf, ParentsExist
      <4> QED BY <3>1, <3>2, <4>1 DEF Quiet, StoppedIsQuiet, ChildrenStopped, Children
    <3>4. CASE n \in Clients(m)
      <4>1. n \in Service /\ m \in Providers(n)
        BY <1>0, <3>4, Neighbours DEF Clients, Providers, Referencing, Referenced, DependantOnUs, DependantOnThem, UpdateStarted
      <4>2. local[n] = "CONSTRUCTED"
        BY <3>1, <4>1 DEF ProvidersStarted
      <4> QED BY <1>0, <3>2, <4>1, <4>2 DEF LevelPairs, LevelPair, Node
    <3> QED BY <3>2, <3>3, <3>4 DEF Clients
  <2>4. CASE UpdateStopping(m)
    BY <1>0, <2>4 DEF UpdateStopping, Dispatch, CompleteStop, Raised, Children
  <2>5. CASE UpdateStopped(m)
    <3>1. m \in exists /\ overall[m] = "STOPPING" /\ local[m] = "STOPPED"
      BY <1>0, <2>5 DEF UpdateStopped, Dispatch
    <3>2. n \in ParentOf(m) \cup Providers(m) /\ ChildrenStopped(m)
      BY <1>0, <2>5 DEF UpdateStopped, Providers
    <3>3. overall' = [overall EXCEPT ![m] = "STOPPED"]
      BY <2>5, <3>2 DEF UpdateStopped
    <3>4. CASE n \in ParentOf(m)
      <4>1. m # Root /\ n = Parent[m] /\ n \in exists /\ n # m
        BY <3>1, <3>4, NotOwnParent, <1>0 DEF ParentOf, ParentsExist
      <4> QED BY <1>0, <3>1, <3>3, <4>1 DEF Quiet, StoppedIsQuiet, ChildrenStopped, Children
    <3>5. CASE n \in Providers(m)
      <4>1. m \in Service /\ n \in Service
        BY <1>0, <3>1, <3>5, Neighbours DEF Providers, Referenced, DependantOnThem, Node
      <4>2. local[n] = "RUNNING"
        BY <3>1, <3>5, <4>1 DEF ProviderAvailable
      <4>3. n # m /\ overall[n] # "STOPPED"
        BY <1>0, <3>1, <4>1, <4>2 DEF LevelPairs, LevelPair, Node
      <4> QED BY <1>0, <3>3, <4>1, <4>3
    <3> QED BY <3>2, <3>4, <3>5
  <2>6. CASE NotifyStarted(m)
    BY <1>0, <2>6 DEF NotifyStarted
  <2>7. CASE NotifyStopped(m)
    BY <1>0, <2>7 DEF NotifyStopped, CompleteStop, Raised, Children
  <2>8. CASE OwnerStop(m)
    BY <1>0, <2>8 DEF OwnerStop, RequestStop
  <2>9. CASE Construct(m) \/ Destroy(m)
    BY <2>9 DEF Construct, Destroy
  <2> QED BY <1>2, <2>1, <2>2, <2>3, <2>4, <2>5, <2>6, <2>7, <2>8, <2>9 DEF Step, HandleUpdateWork
<1> QED BY <1>1, <1>2 DEF Next

\* Only its own HandleUpdateWork takes an object to STOPPED.
LEMMA StopsBy ==
    ASSUME Core, [Next]_vars, NEW n \in Node, overall[n] = "STOPPING", overall'[n] = "STOPPED"
    PROVE  UpdateStopped(n) /\ ChildrenStopped(n)
<1>0. overall \in [Node -> Level] /\ Root \in Node
  BY DEF Core, Types, Node
<1>1. ~(Run \/ Shutdown \/ RunReturns \/ Terminated \/ UNCHANGED vars)
  BY <1>0 DEF Run, Shutdown, RequestStop, RunReturns, Terminated, vars
<1>2. PICK m \in Node : Step(m)
  BY <1>1 DEF Next
<1>3. ~(UpdateStable(m) \/ UpdateStarting(m) \/ UpdateStarted(m) \/ UpdateStopping(m))
  BY <1>0 DEF UpdateStable, UpdateStarting, UpdateStarted, UpdateStopping, CompleteStop, Raised
<1>4. ~(NotifyStarted(m) \/ NotifyStopped(m) \/ OwnerStop(m) \/ Construct(m) \/ Destroy(m))
  BY <1>0 DEF NotifyStarted, NotifyStopped, CompleteStop, Raised, OwnerStop, RequestStop, Construct, Destroy
<1>5. UpdateStopped(m)
  BY <1>2, <1>3, <1>4 DEF Step, HandleUpdateWork
<1>6. m = n /\ ChildrenStopped(m)
  BY <1>0, <1>5 DEF UpdateStopped
<1> QED BY <1>5, <1>6

\* An object that stops in a step has no work left after it.
LEMMA StopClearsWork ==
    ASSUME Core, Order, Quiet, [Next]_vars, NEW n \in exists,
           overall[n] = "STOPPING", overall'[n] = "STOPPED"
    PROVE  n \notin work'
<1> USE DEF Core, Order
<1>0. /\ overall \in [Node -> Level] /\ Root \in Node /\ n \in Node
      /\ Service \subseteq exists /\ exists \subseteq Node /\ work \subseteq exists
  BY DEF Types, Quiet, Node
<1>1. UpdateStopped(n)
  BY <1>0, StopsBy
<1>2. work' \subseteq (work \ {n}) \cup ParentOf(n) \cup Providers(n)
  BY <1>1 DEF UpdateStopped, Providers
<1>3. n \notin ParentOf(n)
  BY <1>0, NotOwnParent DEF ParentOf
<1>4. n \notin Providers(n)
  <2> SUFFICES ASSUME n \in Providers(n) PROVE FALSE
    OBVIOUS
  <2>1. n \in Service
    BY <1>0, Neighbours DEF Providers, Node
  <2>2. local[n] = "STOPPED"
    BY <1>1 DEF UpdateStopped
  <2> QED BY <2>1, <2>2 DEF ProviderAvailable
<1> QED BY <1>2, <1>3, <1>4

LEMMA QuietStep == Core /\ Order /\ Quiet /\ [Next]_vars => Quiet'
<1> SUFFICES ASSUME Core, Order, Quiet, [Next]_vars PROVE Quiet'
  OBVIOUS
<1>0. exists \subseteq Node /\ work \subseteq exists
  BY DEF Core, Types, Quiet
<1>1. \A n \in exists : overall[n] = "STOPPED" => overall'[n] = "STOPPED"
  BY <1>0, Moves DEF OverallMove
<1>2. work' \subseteq exists'
  <2>1. work' \subseteq exists
    BY <1>0, Posts
  <2>2. ASSUME NEW r \in Resource \ Member, r \in exists, exists' = exists \ {r},
               overall[r] = "STOPPED", work' = work
        PROVE  work' \subseteq exists'
    BY <1>0, <2>2 DEF Quiet, StoppedIsQuiet
  <2> QED BY <2>1, <2>2, Existence
<1>3. ASSUME NEW n \in exists', overall'[n] = "STOPPED"
      PROVE  n \notin work' /\ ChildrenStopped(n)'
  <2>1. n \in exists /\ n \in Node
    BY <1>0, <1>3, Existence
  <2>2. overall[n] = "STOPPED" \/ (overall[n] = "STOPPING" /\ ChildrenStopped(n))
    BY <1>3, <2>1, Moves DEF OverallMove
  <2>3. ChildrenStopped(n)
    BY <2>1, <2>2 DEF Quiet, StoppedIsQuiet
  <2>4. n \notin work'
    <3>1. CASE overall[n] = "STOPPED"
      BY <1>3, <2>1, <3>1, Posts DEF Quiet, StoppedIsQuiet
    <3>2. CASE overall[n] = "STOPPING"
      BY <1>3, <2>1, <3>2, StopClearsWork
    <3> QED BY <2>2, <3>1, <3>2
  <2>5. ChildrenStopped(n)'
    <3> SUFFICES ASSUME NEW c \in exists' \ {Root}, Parent[c] = n PROVE overall'[c] = "STOPPED"
      BY DEF ChildrenStopped, Children
    <3>1. CASE c \in exists
      BY <1>1, <2>3, <3>1 DEF ChildrenStopped, Children
    <3>2. CASE c \notin exists
      <4>1. local[n] \in {"STARTING", "RUNNING", "STOPPING"} /\ exists' # exists /\ c \in Resource
            /\ \A m \in Node \ {c} : overall'[m] = overall[m]
        BY <3>2, Existence
      <4>2. overall[n] = "STOPPED"
        BY <1>3, <2>1, <3>2, <4>1
      <4> QED BY <2>1, <4>1, <4>2 DEF Core, LevelPairs, LevelPair
    <3> QED BY <3>1, <3>2
  <2> QED BY <2>4, <2>5
<1> QED BY <1>2, <1>3 DEF Quiet, StoppedIsQuiet

-----------------------------------------------------------------------------
(***************************************************************************)
(* The theorems about stopping and starting in order.                      *)
(***************************************************************************)
IInv == Core /\ Order /\ Quiet

THEOREM Invariance == Spec => []IInv
<1>1. Init => IInv
  BY InitCore, InitOrder, InitQuiet DEF IInv
<1>2. IInv /\ [Next]_vars => IInv'
  BY CoreStep, OrderStep, QuietStep DEF IInv
<1> QED BY <1>1, <1>2, PTL DEF Spec

\* Every variable keeps its type, and no work is ever posted for an object
\* that was destroyed: the handler io_service runs is always on a live object.
THEOREM TypeCorrect == Spec => []TypeOK
<1>1. IInv => TypeOK
  BY DEF IInv, Core, Quiet, Types, TypeOK
<1> QED BY <1>1, Invariance, PTL

\* BBOX_ASSERT(false) at the end of HandleUpdateWork is not reached.
LEMMA TransitionsSupported == Spec => []NoUnsupportedTransition
<1>1. IInv => NoUnsupportedTransition
  BY DEF IInv, Core, Types, LevelPairs, LevelPair, NoUnsupportedTransition, Unsupported
<1> QED BY <1>1, Invariance, PTL

\* A service finds the services it uses running from its HandleStarting until
\* it has stopped.
LEMMA ProvidersStayAvailable == Spec => []ProviderAvailable
<1>1. IInv => ProviderAvailable
  BY DEF IInv, Order
<1> QED BY <1>1, Invariance, PTL

\* The services below a service run as long as it has not been told to stop.
LEMMA ChildServicesStayRunning == Spec => []ChildServicesRunning
<1>1. IInv => ChildServicesRunning
  BY DEF IInv, Order
<1> QED BY <1>1, Invariance, PTL

\* The assertion of RequestStopAllChildren holds whenever it may be called.
LEMMA ChildrenAreStoppable == Spec => []StoppableChildren
<1>1. IInv => StoppableChildren
  <2> SUFFICES ASSUME IInv, NEW n \in exists, local[n] \in {"RUNNING", "STOPPING"}, NEW c \in Children(n)
               PROVE  overall[c] \in {"RUNNING", "STOPPING", "STOPPED"}
    BY DEF StoppableChildren
  <2>1. c \in Node /\ c # Root /\ Parent[c] = n /\ overall[c] \in Level
    BY DEF IInv, Core, Types, Children
  <2>2. CASE c \in Service
    BY <2>1, <2>2 DEF IInv, Order, ChildrenStarted, Level
  <2>3. CASE c \in Resource
    BY <2>1, <2>3 DEF IInv, Core, ResourcesStarted, Level
  <2> QED BY <2>1, <2>2, <2>3 DEF Node
<1> QED BY <1>1, Invariance, PTL

\* The destructor's assertions: a stopped object has no work requested and
\* nothing below it that still runs.
LEMMA StoppedStaysQuiet == Spec => []StoppedIsQuiet
<1>1. IInv => StoppedIsQuiet
  BY DEF IInv, Quiet
<1> QED BY <1>1, Invariance, PTL

-----------------------------------------------------------------------------
(***************************************************************************)
(* When Run returns everything has stopped: Root is stopped, and by        *)
(* StoppedIsQuiet so is, level by level, everything below it.              *)
(***************************************************************************)
Returned == run = "returned" => overall[Root] = "STOPPED"

LEMMA RootStoppedLast ==
    ASSUME IInv, overall[Root] = "STOPPED"
    PROVE  \A n \in exists : overall[n] = "STOPPED"
<1> DEFINE S == {n \in Node : n \in exists => overall[n] = "STOPPED"}
<1>1. Root \in S
  BY DEF Node
<1>2. ASSUME NEW n \in Node \ {Root}, Parent[n] \in S PROVE n \in S
  <2> SUFFICES ASSUME n \in exists PROVE overall[n] = "STOPPED"
    OBVIOUS
  <2>1. Parent[n] \in exists /\ overall[Parent[n]] = "STOPPED"
    BY <1>2 DEF IInv, Order, ParentsExist
  <2> QED BY <2>1 DEF IInv, Quiet, StoppedIsQuiet, ChildrenStopped, Children
<1>3. S \in SUBSET Node
  OBVIOUS
<1>4. S = Node
  <2> HIDE DEF S
  <2> QED BY <1>1, <1>2, <1>3
<1> QED BY <1>4 DEF IInv, Core, Types

LEMMA ReturnedStep == IInv /\ Returned /\ [Next]_vars => Returned'
<1> SUFFICES ASSUME IInv, Returned, [Next]_vars, run' = "returned" PROVE overall'[Root] = "STOPPED"
  BY DEF Returned
<1>0. Root \in Service /\ Root \in exists /\ Root \in Node
  BY DEF IInv, Core, Types, Node
<1>1. OverallMove(Root)
  BY <1>0, Moves DEF IInv
<1>2. overall[Root] = "STOPPED"
  <2>1. CASE run = "returned"
    BY <2>1 DEF Returned
  <2>2. CASE run # "returned"
    <3>1. ~(UNCHANGED vars \/ Run \/ Shutdown \/ Terminated)
      BY <2>2 DEF vars, Run, Shutdown, RequestStop, Terminated
    <3>2. ASSUME NEW m \in Node PROVE ~Step(m)
      BY <2>2 DEF Step, HandleUpdateWork, UpdateStable, UpdateStarting, UpdateStarted, UpdateStopping,
                  UpdateStopped, NotifyStarted, NotifyStopped, OwnerStop, RequestStop, Construct, Destroy
    <3> QED BY <3>1, <3>2 DEF Next, RunReturns
  <2> QED BY <2>1, <2>2
<1> QED BY <1>1, <1>2 DEF OverallMove

\* Proactor::Run returns only after everything in the hierarchy has stopped.
LEMMA RunReturnsStopped == Spec => []ReturnsStopped
<1>1. Init => Returned
  BY DEF Init, Returned
<1>2. IInv /\ Returned => ReturnsStopped
  BY RootStoppedLast DEF Returned, ReturnsStopped
<1> QED BY <1>1, <1>2, ReturnedStep, Invariance, PTL DEF Spec

\* The assertions of ResourceBase about levels hold in every hierarchy.
THEOREM AssertionsHold == Spec => []NoAssertionFails
<1>1. NoUnsupportedTransition /\ StoppableChildren => NoAssertionFails
  BY DEF NoAssertionFails
<1> QED BY <1>1, TransitionsSupported, ChildrenAreStoppable, PTL

\* What a service uses, and what is below it, runs for as long as it needs it.
THEOREM ServicesStayAvailable == Spec => []ServicesAvailable
<1>1. ProviderAvailable /\ ChildServicesRunning => ServicesAvailable
  BY DEF ServicesAvailable
<1> QED BY <1>1, ProvidersStayAvailable, ChildServicesStayRunning, PTL

\* Nothing is left to run on or below what has stopped, nor when Run returns.
THEOREM StopsAreComplete == Spec => []StopIsComplete
<1>1. StoppedIsQuiet /\ ReturnsStopped => StopIsComplete
  BY DEF StopIsComplete
<1> QED BY <1>1, StoppedStaysQuiet, RunReturnsStopped, PTL

\* The levels of an object never go back as long as it exists.
THEOREM LevelsOnlyAdvance == Spec => LevelsAdvance
<1> DEFINE Advance == \A n \in exists \cap exists' :
                        Rank[overall[n]] <= Rank[overall'[n]] /\ Rank[local[n]] <= Rank[local'[n]]
<1>1. IInv /\ [Next]_vars => Advance
  <2> SUFFICES ASSUME IInv, [Next]_vars, NEW n \in exists
               PROVE  Rank[overall[n]] <= Rank[overall'[n]] /\ Rank[local[n]] <= Rank[local'[n]]
    OBVIOUS
  <2>1. n \in Node /\ overall[n] \in Level /\ local[n] \in Level
    BY DEF IInv, Core, Types
  <2>2. OverallMove(n) /\ LocalMove(n)
    BY <2>1, Moves DEF IInv
  <2>3. /\ Rank["CONSTRUCTED"] = 0 /\ Rank["STARTING"] = 1 /\ Rank["RUNNING"] = 2
        /\ Rank["STOPPING"] = 3 /\ Rank["STOPPED"] = 4
    BY DEF Rank
  <2>4. Rank[overall[n]] <= Rank[overall'[n]]
    BY <2>1, <2>2, <2>3 DEF OverallMove, Level
  <2>5. Rank[local[n]] <= Rank[local'[n]]
    BY <2>1, <2>2, <2>3 DEF LocalMove, Level
  <2> QED BY <2>4, <2>5
<1> QED BY <1>1, Invariance, PTL DEF Spec, LevelsAdvance

-----------------------------------------------------------------------------
(***************************************************************************)
(* No wakeup is lost.  Each way an object can become ready for the next    *)
(* part of HandleUpdateWork is a step that posts that handler for it.      *)
(***************************************************************************)
Connected == run = "running" /\ overall[Root] # "STOPPED" => connected

ReadyToStart(n) ==
    /\ overall[n] = "STARTING" /\ local[n] = "CONSTRUCTED"
    /\ PrerequisitesRunning(n) \/ \E c \in Children(n) : overall[c] = "CONSTRUCTED"
Started(n)     == overall[n] = "STARTING" /\ local[n] = "RUNNING"
ReadyToStop(n) == overall[n] = "STOPPING" /\ local[n] = "RUNNING" /\ ClientsStopped(n)
Ended(n)       == overall[n] = "STOPPING" /\ local[n] = "STOPPED" /\ ChildrenStopped(n)

LEMMA ProgressableParts ==
    \A n : Progressable(n) <=> ReadyToStart(n) \/ Started(n) \/ ReadyToStop(n) \/ Ended(n)
  BY DEF Progressable, ReadyToStart, Started, ReadyToStop, Ended

Wakeup == NoLostWakeup /\ Connected

LEMMA InitWakeup == Init => Wakeup
  BY DEF Init, Wakeup, NoLostWakeup, Connected, Progressable

LEMMA ConnectedStep == IInv /\ Connected /\ [Next]_vars => Connected'
<1> SUFFICES ASSUME IInv, Connected, [Next]_vars, run' = "running", overall'[Root] # "STOPPED"
             PROVE  connected'
  BY DEF Connected
<1>0. Root \in Service /\ Root \in exists /\ Root \in Node /\ overall \in [Node -> Level]
  BY DEF IInv, Core, Types, Node
<1>1. overall[Root] # "STOPPED"
  BY <1>0, Moves DEF OverallMove, IInv
<1>2. CASE Run
  BY <1>2 DEF Run
<1>3. CASE Shutdown \/ RunReturns \/ Terminated \/ UNCHANGED vars
  BY <1>1, <1>3 DEF Shutdown, RequestStop, RunReturns, Terminated, vars, Connected
<1>4. ASSUME NEW m \in Node, Step(m) PROVE connected'
  <2>1. CASE UpdateStopped(m)
    <3>1. run = "running" /\ connected
      BY <1>1, <2>1 DEF UpdateStopped, Dispatch, Connected
    <3>2. CASE ChildrenStopped(m)
      <4>1. m # Root
        BY <1>0, <2>1, <3>2 DEF UpdateStopped
      <4> QED BY <2>1, <3>1, <3>2, <4>1 DEF UpdateStopped
    <3> QED BY <2>1, <3>1, <3>2 DEF UpdateStopped
  <2>2. CASE ~UpdateStopped(m)
    BY <1>1, <1>4, <2>2 DEF Connected, Step, HandleUpdateWork, UpdateStable, UpdateStarting, UpdateStarted, UpdateStopping,
          NotifyStarted, NotifyStopped, OwnerStop, RequestStop, Construct, Destroy
  <2> QED BY <2>1, <2>2
<1> QED BY <1>2, <1>3, <1>4 DEF Next

\* Only its own HandleUpdateWork takes an object to RUNNING.
LEMMA RunsBy ==
    ASSUME Core, [Next]_vars, NEW n \in Node, n \in exists, overall[n] = "STARTING", overall'[n] = "RUNNING"
    PROVE  UpdateStarted(n)
<1>0. overall \in [Node -> Level] /\ Root \in Node
  BY DEF Core, Types, Node
<1>1. ~(Run \/ Shutdown \/ RunReturns \/ Terminated \/ UNCHANGED vars)
  BY <1>0 DEF Run, Shutdown, RequestStop, RunReturns, Terminated, vars
<1>2. PICK m \in Node : Step(m)
  BY <1>1 DEF Next
<1>3. ~(UpdateStable(m) \/ UpdateStarting(m) \/ UpdateStopped(m) \/ UpdateStopping(m))
  BY <1>0 DEF UpdateStable, UpdateStarting, UpdateStopped, UpdateStopping, CompleteStop, Raised
<1>4. ~(NotifyStarted(m) \/ NotifyStopped(m) \/ OwnerStop(m) \/ Construct(m) \/ Destroy(m))
  BY <1>0 DEF NotifyStarted, NotifyStopped, CompleteStop, Raised, OwnerStop, RequestStop, Construct, Destroy
<1> QED BY <1>0, <1>2, <1>3, <1>4 DEF Step, HandleUpdateWork, UpdateStarted

\* A request and a completion post the work of the object they are about, and
\* posted work is taken only by the object's own handler.
RequestOrCompletion(n) ==
    \/ overall'[n] # overall[n] /\ overall'[n] \in {"STARTING", "STOPPING"}
    \/ local'[n] # local[n] /\ local'[n] \in {"RUNNING", "STOPPED"}

LEMMA Taken ==
    ASSUME Core, [Next]_vars, NEW n \in exists, n \in work, n \notin work'
    PROVE  HandleUpdateWork(n)
<1>1. ~(Run \/ Shutdown \/ RunReturns \/ Terminated \/ UNCHANGED vars)
  BY DEF Run, Shutdown, RequestStop, RunReturns, Terminated, vars
<1>2. PICK m \in Node : Step(m)
  BY <1>1 DEF Next
<1>3. ~(NotifyStarted(m) \/ NotifyStopped(m) \/ OwnerStop(m) \/ Construct(m) \/ Destroy(m))
  BY DEF NotifyStarted, NotifyStopped, CompleteStop, OwnerStop, RequestStop, Construct, Destroy
<1>4. HandleUpdateWork(m)
  BY <1>2, <1>3 DEF Step
<1>5. m = n
  <2>1. CASE UpdateStable(m)
    BY <2>1 DEF UpdateStable
  <2>2. CASE UpdateStarting(m)
    BY <2>2 DEF UpdateStarting
  <2>3. CASE UpdateStarted(m)
    BY <2>3 DEF UpdateStarted
  <2>4. CASE UpdateStopping(m)
    BY <2>4 DEF UpdateStopping, CompleteStop
  <2>5. CASE UpdateStopped(m)
    BY <2>5 DEF UpdateStopped
  <2> QED BY <1>4, <2>1, <2>2, <2>3, <2>4, <2>5 DEF HandleUpdateWork
<1> QED BY <1>4, <1>5

LEMMA Posted ==
    ASSUME Core, [Next]_vars, NEW n \in exists, RequestOrCompletion(n)
    PROVE  n \in work'
<1> USE DEF Core, RequestOrCompletion
<1>0. /\ overall \in [Node -> Level] /\ local \in [Node -> Level] /\ Root \in Node /\ n \in Node
  BY DEF Types, Node
<1>1. CASE Run \/ Shutdown \/ RunReturns \/ Terminated \/ UNCHANGED vars
  BY <1>0, <1>1 DEF Run, Shutdown, RequestStop, RunReturns, Terminated, vars
<1>2. ASSUME NEW m \in Node, Step(m) PROVE n \in work'
  <2>1. CASE UpdateStable(m)
    BY <2>1 DEF UpdateStable
  <2>2. CASE UpdateStarting(m)
    BY <1>0, <2>2 DEF UpdateStarting, Raised
  <2>3. CASE UpdateStarted(m)
    BY <1>0, <2>3 DEF UpdateStarted
  <2>4. CASE UpdateStopping(m)
    BY <1>0, <2>4 DEF UpdateStopping, CompleteStop, Raised
  <2>5. CASE UpdateStopped(m)
    BY <1>0, <2>5 DEF UpdateStopped
  <2>6. CASE NotifyStarted(m)
    BY <1>0, <2>6 DEF NotifyStarted
  <2>7. CASE NotifyStopped(m)
    BY <1>0, <2>7 DEF NotifyStopped, CompleteStop, Raised
  <2>8. CASE OwnerStop(m)
    BY <1>0, <2>8 DEF OwnerStop, RequestStop
  <2>9. CASE Construct(m)
    BY <1>0, <2>9 DEF Construct
  <2>10. CASE Destroy(m)
    BY <2>10 DEF Destroy
  <2> QED BY <1>2, <2>1, <2>2, <2>3, <2>4, <2>5, <2>6, <2>7, <2>8, <2>9, <2>10 DEF Step, HandleUpdateWork
<1> QED BY <1>1, <1>2 DEF Next

\* Work that was posted for an object that is ready is still posted, unless
\* its own handler ran.
LEMMA ReadyToStartPosted ==
    ASSUME IInv, Wakeup, [Next]_vars, NEW n \in exists, n \in exists', ReadyToStart(n)'
    PROVE  n \in work'
<1> USE DEF IInv, Core
<1>0. /\ n \in Node /\ exists \subseteq Node /\ OverallMove(n) /\ LocalMove(n)
      /\ \A c \in exists : OverallMove(c)
  BY Moves DEF Types
<1>1. overall'[n] = "STARTING" /\ local'[n] = "CONSTRUCTED" /\ local[n] = "CONSTRUCTED"
  BY <1>0 DEF ReadyToStart, LocalMove
<1>2. n \in Service
  BY <1>0, <1>1 DEF ResourcesStarted, Node
<1>3. CASE overall[n] # "STARTING"
  BY <1>1, <1>3, Posted DEF RequestOrCompletion
<1>4. CASE overall[n] = "STARTING" /\ ReadyToStart(n)
  <2>1. n \in work
    BY <1>4, ProgressableParts DEF Wakeup, NoLostWakeup
  <2>2. SUFFICES ASSUME n \notin work' PROVE FALSE
    OBVIOUS
  <2>3. HandleUpdateWork(n)
    BY <2>1, <2>2, Taken
  <2>4. UpdateStarting(n)
    BY <1>1, <1>4, <2>3 DEF HandleUpdateWork, UpdateStable, UpdateStarted, UpdateStopping, UpdateStopped
  <2>5. ~PrerequisitesRunning(n)
    BY <1>0, <1>1, <2>4 DEF UpdateStarting, Types
  <2>6. exists' = exists /\ overall' = Raised(overall, {c \in Children(n) : overall[c] = "CONSTRUCTED"}, "STARTING")
    BY <2>4 DEF UpdateStarting
  <2>7. ~(PrerequisitesRunning(n)' \/ \E c \in Children(n)' : overall'[c] = "CONSTRUCTED")
    <3>1. PICK c \in Children(n) \cup Providers(n) : overall[c] # "RUNNING"
      BY <2>5 DEF PrerequisitesRunning
    <3>2. c \in Node /\ overall'[c] # "RUNNING" /\ c \in Children(n)' \cup Providers(n)'
      BY <1>0, <1>2, <2>6, <3>1, Neighbours DEF Raised, Children, Providers, Referenced, DependantOnThem, Node
    <3>3. \A d \in Children(n)' : overall'[d] # "CONSTRUCTED"
      BY <1>0, <2>6 DEF Raised, Children
    <3> QED BY <3>2, <3>3 DEF PrerequisitesRunning
  <2> QED BY <2>7 DEF ReadyToStart
<1>5. CASE overall[n] = "STARTING" /\ ~ReadyToStart(n)
  <2>1. ~PrerequisitesRunning(n) /\ \A c \in Children(n) : overall[c] # "CONSTRUCTED"
    BY <1>1, <1>5 DEF ReadyToStart
  <2>2. ASSUME NEW c \in Children(n)' PROVE c \in Children(n) /\ overall'[c] # "CONSTRUCTED"
    <3>1. c \in exists
      BY <1>1, Existence DEF Children
    <3> QED BY <1>0, <2>1, <3>1 DEF Children, OverallMove
  <2>3. PrerequisitesRunning(n)'
    BY <2>2 DEF ReadyToStart
  <2>4. PICK c \in Children(n) \cup Providers(n) : overall[c] # "RUNNING"
    BY <2>1 DEF PrerequisitesRunning
  <2>5. c \in exists /\ c \in Node
    BY <1>0, <2>4, Neighbours DEF Children, Providers, Types
  <2>6. c \in Children(n)' \cup Providers(n)'
    <3>1. CASE c \in Providers(n)
      BY <3>1 DEF Providers, Referenced, DependantOnThem
    <3>2. CASE c \in Children(n)
      <4>1. overall[c] # "STOPPED"
        BY <1>1, <3>2 DEF Order, NoEarlyStop, Children
      <4>2. c \in exists'
        BY <2>5, <4>1, Existence
      <4> QED BY <3>2, <4>2 DEF Children
    <3> QED BY <2>4, <3>1, <3>2
  <2>7. overall'[c] = "RUNNING"
    BY <2>3, <2>6 DEF PrerequisitesRunning
  <2>8. UpdateStarted(c)
    BY <1>0, <2>4, <2>5, <2>7, RunsBy DEF OverallMove
  <2>9. CASE c \in Children(n)
    BY <2>8, <2>9 DEF Children, UpdateStarted, ParentOf
  <2>10. CASE c \in Referenced(n)
    <3>1. n \in Referencing(c)
      BY <1>2, <2>10 DEF Referenced, Referencing
    <3> QED BY <2>8, <3>1 DEF UpdateStarted
  <2>11. CASE c \in DependantOnThem(n)
    <3>1. n \in DependantOnUs(c)
      BY <1>2, <2>11 DEF DependantOnThem, DependantOnUs
    <3> QED BY <1>5, <2>8, <3>1 DEF UpdateStarted
  <2> QED BY <2>4, <2>9, <2>10, <2>11 DEF Providers
<1> QED BY <1>3, <1>4, <1>5

LEMMA StartedPosted ==
    ASSUME IInv, Wakeup, [Next]_vars, NEW n \in exists, Started(n)'
    PROVE  n \in work'
<1> USE DEF IInv, Core
<1>0. n \in Node /\ OverallMove(n) /\ LocalMove(n) /\ <<overall[n], local[n]>> \in LevelPair
  BY Moves DEF Types, LevelPairs
<1>1. overall'[n] = "STARTING" /\ local'[n] = "RUNNING"
  BY DEF Started
<1>2. CASE local[n] # "RUNNING"
  BY <1>1, <1>2, Posted DEF RequestOrCompletion
<1>3. CASE local[n] = "RUNNING"
  <2>1. overall[n] = "STARTING"
    BY <1>0, <1>1, <1>3 DEF OverallMove, LevelPair
  <2>2. n \in work
    BY <1>3, <2>1, ProgressableParts DEF Started, Wakeup, NoLostWakeup
  <2>3. SUFFICES ASSUME n \notin work' PROVE FALSE
    OBVIOUS
  <2>4. HandleUpdateWork(n)
    BY <2>2, <2>3, Taken
  <2> QED BY <1>0, <1>1, <1>3, <2>1, <2>4 DEF HandleUpdateWork, UpdateStable, UpdateStarting,
             UpdateStarted, UpdateStopping, UpdateStopped, Types
<1> QED BY <1>2, <1>3

LEMMA ReadyToStopPosted ==
    ASSUME IInv, Wakeup, [Next]_vars, NEW n \in exists, ReadyToStop(n)'
    PROVE  n \in work'
<1> USE DEF IInv, Core
<1>0. /\ n \in Node /\ OverallMove(n) /\ LocalMove(n) /\ <<overall[n], local[n]>> \in LevelPair
      /\ Clients(n)' = Clients(n) /\ overall \in [Node -> Level] /\ local \in [Node -> Level]
  BY Moves DEF Types, LevelPairs, Clients, Referencing, DependantOnUs
<1>1. overall'[n] = "STOPPING" /\ local'[n] = "RUNNING"
  BY DEF ReadyToStop
<1>2. CASE overall[n] # "STOPPING" \/ local[n] # "RUNNING"
  BY <1>1, <1>2, Posted DEF RequestOrCompletion
<1>3. CASE overall[n] = "STOPPING" /\ local[n] = "RUNNING" /\ ClientsStopped(n)
  <2>1. n \in work
    BY <1>3, ProgressableParts DEF ReadyToStop, Wakeup, NoLostWakeup
  <2>2. SUFFICES ASSUME n \notin work' PROVE FALSE
    OBVIOUS
  <2>3. HandleUpdateWork(n)
    BY <2>1, <2>2, Taken
  <2>4. UpdateStopping(n)
    BY <1>3, <2>3 DEF HandleUpdateWork, UpdateStable, UpdateStarting, UpdateStarted, UpdateStopped
  <2> QED BY <1>0, <1>1, <1>3, <2>4 DEF UpdateStopping, CompleteStop
<1>4. CASE overall[n] = "STOPPING" /\ local[n] = "RUNNING" /\ ~ClientsStopped(n)
  <2>1. PICK c \in Clients(n) : overall[c] # "STOPPED"
    BY <1>4 DEF ClientsStopped
  <2>2. overall'[c] = "STOPPED"
    BY <1>0, <2>1 DEF ReadyToStop, ClientsStopped
  <2>3. c \in Service /\ c \in Node /\ c \in exists
    BY <1>0, <2>1, Neighbours DEF Clients, Types, Node
  <2>4. overall[c] = "STOPPING"
    BY <2>1, <2>2, <2>3, Moves DEF OverallMove
  <2>5. UpdateStopped(c) /\ ChildrenStopped(c)
    BY <2>2, <2>3, <2>4, StopsBy
  <2>6. connected
    <3>1. overall[Root] # "STOPPED"
      BY <2>1, <2>3, RootStoppedLast
    <3> QED BY <2>5, <3>1 DEF UpdateStopped, Dispatch, Wakeup, Connected
  <2>7. CASE c \in Referencing(n)
    <3>1. n \in Referenced(c)
      BY <2>7 DEF Referenced, Referencing
    <3> QED BY <2>5, <2>6, <3>1 DEF UpdateStopped
  <2>8. CASE c \in DependantOnUs(n)
    <3>1. n \in DependantOnThem(c)
      BY <2>8 DEF DependantOnThem, DependantOnUs
    <3> QED BY <1>4, <2>5, <3>1 DEF UpdateStopped
  <2> QED BY <2>1, <2>7, <2>8 DEF Clients
<1> QED BY <1>2, <1>3, <1>4

LEMMA EndedPosted ==
    ASSUME IInv, Wakeup, [Next]_vars, NEW n \in exists, Ended(n)'
    PROVE  n \in work'
<1> USE DEF IInv, Core
<1>0. /\ n \in Node /\ OverallMove(n) /\ LocalMove(n) /\ <<overall[n], local[n]>> \in LevelPair
      /\ overall \in [Node -> Level] /\ local \in [Node -> Level]
  BY Moves DEF Types, LevelPairs
<1>1. overall'[n] = "STOPPING" /\ local'[n] = "STOPPED"
  BY DEF Ended
<1>2. CASE overall[n] # "STOPPING" \/ local[n] # "STOPPED"
  BY <1>1, <1>2, Posted DEF RequestOrCompletion
<1>3. CASE overall[n] = "STOPPING" /\ local[n] = "STOPPED" /\ ChildrenStopped(n)
  <2>1. n \in work
    BY <1>3, ProgressableParts DEF Ended, Wakeup, NoLostWakeup
  <2>2. SUFFICES ASSUME n \notin work' PROVE FALSE
    OBVIOUS
  <2>3. HandleUpdateWork(n)
    BY <2>1, <2>2, Taken
  <2>4. UpdateStopped(n)
    BY <1>3, <2>3 DEF HandleUpdateWork, UpdateStable, UpdateStarting, UpdateStarted, UpdateStopping
  <2> QED BY <1>0, <1>1, <1>3, <2>4 DEF UpdateStopped
<1>4. CASE overall[n] = "STOPPING" /\ local[n] = "STOPPED" /\ ~ChildrenStopped(n)
  <2>1. PICK c \in Children(n) : overall[c] # "STOPPED"
    BY <1>4 DEF ChildrenStopped
  <2>2. c \in Node /\ c \in exists /\ c # Root /\ Parent[c] = n
    BY <2>1 DEF Children, Types
  <2>3. c \in Children(n)'
    BY <2>1, <2>2, Existence DEF Children
  <2>4. overall'[c] = "STOPPED"
    BY <2>3 DEF Ended, ChildrenStopped
  <2>5. overall[c] = "STOPPING"
    BY <2>1, <2>2, <2>4, Moves DEF OverallMove
  <2>6. UpdateStopped(c) /\ ChildrenStopped(c)
    BY <2>2, <2>4, <2>5, StopsBy
  <2> QED BY <2>2, <2>6 DEF UpdateStopped, ParentOf
<1> QED BY <1>2, <1>3, <1>4

\* The work a step of the hierarchy makes possible is posted in that step.
THEOREM WakeupsArePosted == Spec => []NoLostWakeup
<1>1. IInv /\ Wakeup /\ [Next]_vars => Wakeup'
  <2> SUFFICES ASSUME IInv, Wakeup, [Next]_vars PROVE Wakeup'
    OBVIOUS
  <2>1. ASSUME NEW n \in exists', Progressable(n)' PROVE n \in work'
    <3>1. n \in exists
      <4>1. n \notin exists => overall'[n] = "RUNNING"
        BY Existence DEF IInv
      <4> QED BY <2>1, <4>1 DEF Progressable
    <3>2. (ReadyToStart(n) \/ Started(n) \/ ReadyToStop(n) \/ Ended(n))'
      BY <2>1 DEF Progressable, ReadyToStart, Started, ReadyToStop, Ended, PrerequisitesRunning,
                  ClientsStopped, ChildrenStopped, Children
    <3> QED BY <3>1, <3>2, ReadyToStartPosted, StartedPosted, ReadyToStopPosted, EndedPosted
  <2> QED BY <2>1, ConnectedStep DEF Wakeup, NoLostWakeup
<1>2. Wakeup => NoLostWakeup
  BY DEF Wakeup
<1> QED BY <1>1, <1>2, InitWakeup, Invariance, PTL DEF Spec

-----------------------------------------------------------------------------
(***************************************************************************)
(* The hierarchy implements the safety part of LifecycleContract.          *)
(***************************************************************************)
Uses == {u \in Service \X Service : u[2] \in Providers(u[1])}

\* A step that changes no object's status is a stutter of the contract.
LEMMA SameStatus ==
    ASSUME \A n \in Node : status'[n] = status[n]
    PROVE  status' = status
  BY DEF status

\* A step that changes one object's status.
LEMMA OneStatus ==
    ASSUME NEW m \in Node, NEW v, status'[m] = v, \A n \in Node \ {m} : status'[n] = status[n]
    PROVE  Promise!Set(m, v)
<1>1. status' = [n \in Node |-> status'[n]]
  BY DEF status
<1>2. [status EXCEPT ![m] = v] = [n \in Node |-> IF n = m THEN v ELSE status[n]]
  BY DEF status
<1>3. \A n \in Node : status'[n] = IF n = m THEN v ELSE status[n]
  OBVIOUS
<1>4. [n \in Node |-> status'[n]] = [n \in Node |-> IF n = m THEN v ELSE status[n]]
  BY <1>3
<1> QED BY <1>1, <1>2, <1>4 DEF Promise!Set

LEMMA StatusSteps ==
    ASSUME IInv, [Next]_vars
    PROVE  [Promise!Next]_status
<1> USE DEF IInv, Core
<1>0. /\ overall \in [Node -> Level] /\ local \in [Node -> Level] /\ Root \in Node
      /\ \A n \in Node : <<overall[n], local[n]>> \in LevelPair
      /\ Service \subseteq exists /\ exists \subseteq Node
  BY DEF Types, LevelPairs, Node
<1>1. CASE Run \/ Shutdown \/ RunReturns \/ Terminated \/ UNCHANGED vars
  <2>1. \A n \in Node : status'[n] = status[n]
    BY <1>0, <1>1 DEF Run, Shutdown, RequestStop, RunReturns, Terminated, vars, status
  <2> QED BY <2>1, SameStatus
<1>2. ASSUME NEW m \in Node, UpdateStable(m) \/ UpdateStarted(m) \/ NotifyStarted(m) \/ OwnerStop(m)
      PROVE  status' = status
  <2>1. \A n \in Node : status'[n] = status[n]
    BY <1>0, <1>2 DEF UpdateStable, UpdateStarted, NotifyStarted, OwnerStop, RequestStop, status
  <2> QED BY <2>1, SameStatus
<1>3. ASSUME NEW m \in Node, NotifyStopped(m) PROVE status' = status
  <2>1. \A n \in Node : status'[n] = status[n]
    BY <1>0, <1>3 DEF NotifyStopped, CompleteStop, Raised, status
  <2> QED BY <2>1, SameStatus
<1>4. ASSUME NEW m \in Node, UpdateStarting(m) PROVE [Promise!Next]_status
  <2>1. CASE ~PrerequisitesRunning(m)
    <3>1. \A n \in Node : status'[n] = status[n]
      BY <1>0, <1>4, <2>1 DEF UpdateStarting, Raised, status
    <3> QED BY <3>1, SameStatus
  <2>2. CASE PrerequisitesRunning(m)
    <3>1. status[m] = "offline" /\ m \in exists
      <4>1. m \in exists
        BY <1>4 DEF UpdateStarting, Dispatch, Quiet
      <4> QED BY <1>4, <4>1 DEF UpdateStarting, status
    <3>2. status'[m] = "online" /\ \A n \in Node \ {m} : status'[n] = status[n]
      BY <1>0, <1>4, <2>2, <3>1 DEF UpdateStarting, Raised, status
    <3>3. \A c \in Promise!Below(m) : status[c] \in {"online", "absent"}
      BY <1>0, <2>2 DEF PrerequisitesRunning, Children, Promise!Below, Promise!Node, Node, LevelPair, status
    <3>4. \A p \in Service : <<m, p>> \in Uses => status[p] = "online"
      BY <1>0, <2>2 DEF PrerequisitesRunning, Uses, Node, LevelPair, status
    <3>5. Promise!Set(m, "online")
      BY <3>2, OneStatus
    <3>6. Promise!Join(m)
      BY <3>1, <3>3, <3>4, <3>5 DEF Promise!Join, Uses
    <3> QED BY <3>6 DEF Promise!Next, Promise!Node, Node
  <2> QED BY <2>1, <2>2
<1>5. ASSUME NEW m \in Node, UpdateStopping(m) PROVE [Promise!Next]_status
  <2>1. CASE ~ClientsStopped(m)
    <3>1. \A n \in Node : status'[n] = status[n]
      BY <1>5, <2>1 DEF UpdateStopping, status
    <3> QED BY <3>1, SameStatus
  <2>2. CASE ClientsStopped(m)
    <3>1. m \in exists /\ overall[m] = "STOPPING" /\ local[m] = "RUNNING" /\ exists' = exists
      BY <1>5 DEF UpdateStopping, Dispatch, Quiet
    <3>2. status[m] = "online"
      BY <3>1 DEF status
    <3>3. local' = [local EXCEPT ![m] = "STOPPED"] \/ local' = [local EXCEPT ![m] = "STOPPING"]
      BY <1>5, <2>2 DEF UpdateStopping, CompleteStop
    <3>4. \A n \in Node : overall'[n] = overall[n] \/ (overall[n] = "RUNNING" /\ overall'[n] = "STOPPING")
      BY <1>0, <1>5, <2>2 DEF UpdateStopping, CompleteStop, Raised
    <3>5. status'[m] = "leaving" /\ \A n \in Node \ {m} : status'[n] = status[n]
      BY <1>0, <3>1, <3>3, <3>4 DEF status
    <3>6. \A c \in Service : <<c, m>> \in Uses => status[c] = "gone"
      <4> SUFFICES ASSUME NEW c \in Service, m \in Providers(c) PROVE status[c] = "gone"
        BY DEF Uses
      <4>1. c \in Clients(m)
        BY Converse
      <4> QED BY <1>0, <2>2, <4>1 DEF ClientsStopped, status, Node
    <3>7. m = Root \/ m \in Resource \/ status[Parent[m]] = "leaving"
      <4> SUFFICES ASSUME m # Root, m \in Service PROVE status[Parent[m]] = "leaving"
        BY DEF Node
      <4>1. Parent[m] \in Service /\ Parent[m] \in Node /\ Parent[m] \in exists
        BY <1>0 DEF Node
      <4>2. local[Parent[m]] \in {"STOPPING", "STOPPED"}
        BY <1>0, <3>1, <4>1 DEF Order, ChildServicesRunning, NoEarlyStop, Level
      <4>3. overall[Parent[m]] # "STOPPED"
        BY <3>1, <4>1 DEF Quiet, StoppedIsQuiet, ChildrenStopped, Children
      <4> QED BY <4>1, <4>2, <4>3 DEF status
    <3>8. Promise!Set(m, "leaving")
      BY <3>5, OneStatus
    <3>9. Promise!Leave(m)
      BY <3>2, <3>6, <3>7, <3>8 DEF Promise!Leave, Uses
    <3> QED BY <3>9 DEF Promise!Next, Promise!Node, Node
  <2> QED BY <2>1, <2>2
<1>6. ASSUME NEW m \in Node, UpdateStopped(m) PROVE [Promise!Next]_status
  <2>1. CASE ~ChildrenStopped(m)
    <3>1. \A n \in Node : status'[n] = status[n]
      BY <1>6, <2>1 DEF UpdateStopped, status
    <3> QED BY <3>1, SameStatus
  <2>2. CASE ChildrenStopped(m)
    <3>1. m \in exists /\ overall[m] = "STOPPING" /\ local[m] = "STOPPED" /\ exists' = exists
          /\ local' = local /\ overall' = [overall EXCEPT ![m] = "STOPPED"]
      BY <1>6, <2>2 DEF UpdateStopped, Dispatch, Quiet
    <3>2. status[m] = "leaving" /\ status'[m] = "gone" /\ \A n \in Node \ {m} : status'[n] = status[n]
      BY <1>0, <3>1 DEF status
    <3>3. \A c \in Promise!Below(m) : status[c] \in {"gone", "absent"}
      BY <2>2 DEF ChildrenStopped, Children, Promise!Below, Promise!Node, Node, status
    <3>4. Promise!Set(m, "gone")
      BY <3>2, OneStatus
    <3> QED BY <3>2, <3>3, <3>4 DEF Promise!Finish, Promise!Next, Promise!Node, Node
  <2> QED BY <2>1, <2>2
<1>7. ASSUME NEW m \in Node, Construct(m) PROVE [Promise!Next]_status
  <2>1. m \in Resource /\ m \notin exists /\ Parent[m] \in exists /\ exists' = exists \cup {m}
        /\ local[Parent[m]] \in {"STARTING", "RUNNING", "STOPPING"}
        /\ overall' = [overall EXCEPT ![m] = "RUNNING"] /\ local' = [local EXCEPT ![m] = "RUNNING"]
    BY <1>7 DEF Construct
  <2>2. status[m] = "absent" /\ status'[m] = "online" /\ \A n \in Node \ {m} : status'[n] = status[n]
    BY <1>0, <2>1 DEF status
  <2>3. status[Parent[m]] \in {"online", "leaving"}
    BY <1>0, <2>1 DEF status, LevelPair
  <2>4. Promise!Set(m, "online")
    BY <2>2, OneStatus
  <2> QED BY <2>1, <2>2, <2>3, <2>4 DEF Promise!Appear, Promise!Next, Promise!Node, Node
<1>8. ASSUME NEW m \in Node, Destroy(m) PROVE [Promise!Next]_status
  <2>1. m \in Resource /\ m \in exists /\ exists' = exists \ {m} /\ overall[m] = "STOPPED"
        /\ Children(m) = {} /\ overall' = overall /\ local' = local
    BY <1>8 DEF Destroy
  <2>2. status[m] = "gone" /\ status'[m] = "absent" /\ \A n \in Node \ {m} : status'[n] = status[n]
    BY <1>0, <2>1 DEF status
  <2>3. \A c \in Promise!Below(m) : status[c] = "absent"
    BY <2>1 DEF Children, Promise!Below, Promise!Node, Node, status
  <2>4. Promise!Set(m, "absent")
    BY <2>2, OneStatus
  <2> QED BY <2>1, <2>2, <2>3, <2>4 DEF Promise!Vanish, Promise!Next, Promise!Node, Node
<1> QED BY <1>1, <1>2, <1>3, <1>4, <1>5, <1>6, <1>7, <1>8 DEF Next, Step, HandleUpdateWork

\* Objects are started, told to leave and gone in the order the contract
\* promises, whatever the hierarchy and the order of the posted handlers.
THEOREM KeepsOrder == Spec => Promise!Safety
<1>1. Init => Promise!Init
  <2> SUFFICES ASSUME Init PROVE Promise!Init
    OBVIOUS
  <2>1. Member \in SUBSET Resource
    OBVIOUS
  <2>2. status = [n \in Node |-> IF n \in Service THEN "offline"
                                 ELSE IF n \in Member THEN "online" ELSE "absent"]
    BY DEF Init, status, Node
  <2> QED BY <2>1, <2>2 DEF Promise!Init, Promise!Node, Node
<1>2. IInv /\ [Next]_vars => [Promise!Next]_status
  BY StatusSteps
<1> QED BY <1>1, <1>2, Invariance, PTL DEF Spec, Promise!Safety
=============================================================================
