------------------------- MODULE Win32NetworkChange --------------------------
(***************************************************************************)
(* Win32NetworkChangeService is called by the IP helper API, in a thread   *)
(* of that API's own, whenever an interface changes.  The call only counts *)
(* itself and posts HandleUpdateRequired to the proactor, which has a      *)
(* thread of the pool query the adapters, one query at a time.  Stopping   *)
(* involves all three threads: the notifier is cancelled, which waits for  *)
(* a call that is under way, and the reference to the pool is stopped      *)
(* before the service is.                                                  *)
(*                                                                         *)
(* The proactor's handlers run in the order they were posted.              *)
(***************************************************************************)
EXTENDS Naturals, Sequences, NetworkAdapters

CONSTANT MaxPending \* bound on the calls of the API that wait for the proactor

Win32Assumption == MaxPending \in Nat

VARIABLES
    world,      \* the adapters there are
    notifier,   \* m_change_handle is registered
    notice,     \* the API has a change to report
    api,        \* where the API's thread is in TriggerUpdate
    level,      \* the service's local run level
    stopping,   \* its RequestStop has been called
    pending,    \* m_pending_counter
    another,    \* m_another_update_required
    ref,        \* the thread pool reference's local run level
    refStopped, \* its overall run level is STOPPED
    items,      \* its m_items_in_progress
    thread,     \* where the pool's thread is with the query
    scan,       \* m_detecting_adapters
    current,    \* m_current_adapters
    posts       \* the proactor's queue

outside == <<world, notifier, notice, api>>
refVars == <<ref, refStopped>>
query == <<items, thread, scan>>
vars == <<outside, level, stopping, pending, another, refVars, query, current, posts>>

Init ==
    /\ world \in Adapters /\ notifier = FALSE /\ notice = FALSE /\ api = "idle"
    /\ level = "CONSTRUCTED" /\ stopping = FALSE
    /\ pending = 0 /\ another = FALSE
    /\ ref = "RUNNING" /\ refStopped = FALSE
    /\ items = 0 /\ thread = "idle" /\ scan = None
    /\ current = None
    /\ posts = <<>>

Handles(h) == posts # <<>> /\ Head(posts) = h

-----------------------------------------------------------------------------
\* The API.
Change ==
    /\ world' \in Adapters \ {world}
    /\ notice' = notifier
    /\ UNCHANGED <<notifier, api, level, stopping, pending, another, refVars, query, current, posts>>

TriggerUpdate ==
    /\ \/ /\ api = "idle" /\ notice /\ pending < MaxPending
          /\ api' = "counted" /\ notice' = FALSE
          /\ pending' = pending + 1 /\ UNCHANGED posts
       \/ /\ api = "counted" /\ api' = "idle"
          /\ posts' = Append(posts, "update") /\ UNCHANGED <<notice, pending>>
    /\ UNCHANGED <<world, notifier, level, stopping, another, refVars, query, current>>

\* In the pool's thread: RequestAdapters, and later the completion is posted.
RequestAdapters ==
    /\ \/ /\ thread = "queued" /\ thread' = "queried"
          /\ scan' = world /\ UNCHANGED posts
       \/ /\ thread = "queried" /\ thread' = "idle"
          /\ posts' = Append(posts, "complete") /\ UNCHANGED scan
    /\ UNCHANGED <<outside, level, stopping, pending, another, refVars, items, current>>

-----------------------------------------------------------------------------
\* The proactor's thread.
HandleStarting ==
    /\ level = "CONSTRUCTED" /\ level' = "STARTING"
    /\ notifier' = TRUE /\ notice' = TRUE
    /\ UNCHANGED <<world, api, stopping, pending, another, refVars, query, current, posts>>

RequestStop ==
    /\ level = "RUNNING" /\ ~stopping /\ stopping' = TRUE
    /\ UNCHANGED <<outside, level, pending, another, refVars, query, current, posts>>

\* Mutant: the notifier is destroyed without waiting for its call.
HandleStoppingAtOnce ==
    /\ stopping /\ level = "RUNNING"
    /\ notifier' = FALSE /\ notice' = FALSE
    /\ level' = "STOPPING"
    /\ posts' = Append(posts, "stopRef")
    /\ UNCHANGED <<world, api, stopping, pending, another, refVars, query, current>>

\* CancelMibChangeNotify2 returns when no call of the API is under way.
HandleStopping ==
    /\ stopping /\ level = "RUNNING" /\ api = "idle"
    /\ notifier' = FALSE /\ notice' = FALSE
    /\ level' = "STOPPING"
    /\ posts' = Append(posts, "stopRef")
    /\ UNCHANGED <<world, api, stopping, pending, another, refVars, query, current>>

CheckShutdown(n, gone) ==
    level' = IF level = "STOPPING" /\ gone /\ n = 0 THEN "STOPPED" ELSE level

RunOnThread == items' = items + 1 /\ thread' = "queued"

\* Mutant: a change during a query is forgotten.
HandleUpdateRequiredOnce ==
    /\ Handles("update") /\ posts' = Tail(posts)
    /\ pending' = pending - 1
    /\ IF items = 0 THEN RunOnThread ELSE UNCHANGED <<items, thread>>
    /\ UNCHANGED <<outside, level, stopping, another, refVars, scan, current>>

HandleUpdateRequired ==
    /\ Handles("update") /\ posts' = Tail(posts)
    /\ pending' = pending - 1
    /\ \/ items = 0 /\ RunOnThread /\ UNCHANGED another
       \/ items > 0 /\ another' = TRUE /\ UNCHANGED <<items, thread>>
    /\ UNCHANGED <<outside, level, stopping, refVars, scan, current>>

\* The reference's own CheckStopped, with n items left.
RefCheckStopped(r, n, queue) ==
    IF r = "STOPPING" /\ n = 0
    THEN ref' = "STOPPED" /\ posts' = Append(queue, "refStopped")
    ELSE ref' = r /\ posts' = queue

\* HandlUpdateComplete, between the two halves of the reference's completion.
HandlUpdateComplete ==
    /\ Handles("complete")
    /\ \/ /\ level = "STOPPING"
          /\ CheckShutdown(pending, refStopped)
          /\ items' = items - 1
          /\ UNCHANGED <<another, thread, current>>
       \/ /\ level # "STOPPING" /\ another
          /\ another' = FALSE /\ thread' = "queued"
          /\ UNCHANGED <<level, items, current>>
       \/ /\ level # "STOPPING" /\ ~another
          /\ level' = "RUNNING" /\ current' = scan
          /\ items' = items - 1
          /\ UNCHANGED <<another, thread>>
    /\ RefCheckStopped(ref, items', Tail(posts))
    /\ UNCHANGED <<outside, stopping, pending, refStopped, scan>>

HandleRefStopping ==
    /\ Handles("stopRef")
    /\ RefCheckStopped("STOPPING", items, Tail(posts))
    /\ UNCHANGED <<outside, level, stopping, pending, another, refStopped, query, current>>

\* Mutant: the reference is stopped without a completion handler.
RefStoppedSilently ==
    /\ Handles("refStopped") /\ posts' = Tail(posts)
    /\ refStopped' = TRUE
    /\ UNCHANGED <<outside, level, stopping, pending, another, ref, query, current>>

\* The reference's stop is complete, its completion handler is CheckShutdown.
RefStopped ==
    /\ Handles("refStopped") /\ posts' = Tail(posts)
    /\ refStopped' = TRUE
    /\ CheckShutdown(pending, TRUE)
    /\ UNCHANGED <<outside, stopping, pending, another, ref, query, current>>

-----------------------------------------------------------------------------
Stopped == level = "STOPPED" /\ UNCHANGED vars

Handler ==
    \/ HandleUpdateRequired \/ HandlUpdateComplete \/ HandleRefStopping \/ RefStopped

Next ==
    \/ Change \/ TriggerUpdate \/ RequestAdapters
    \/ HandleStarting \/ RequestStop \/ HandleStopping \/ Handler \/ Stopped

Spec == Init /\ [][Next]_vars

\* All threads run.  The API lets the stop that waits for it happen, however
\* often it calls.
FairSpec ==
    /\ Spec
    /\ WF_vars(TriggerUpdate) /\ WF_vars(RequestAdapters) /\ WF_vars(Handler)
    /\ WF_vars(HandleStarting) /\ SF_vars(HandleStopping)

-----------------------------------------------------------------------------
\* The variables have their types; the atomic counter never wraps.
TypeOK ==
    /\ world \in Adapters /\ notifier \in BOOLEAN /\ notice \in BOOLEAN
    /\ api \in {"idle", "counted"}
    /\ level \in {"CONSTRUCTED", "STARTING", "RUNNING", "STOPPING", "STOPPED"}
    /\ stopping \in BOOLEAN /\ pending \in 0 .. MaxPending /\ another \in BOOLEAN
    /\ ref \in {"RUNNING", "STOPPING", "STOPPED"} /\ refStopped \in BOOLEAN
    /\ items \in {0, 1} /\ thread \in {"idle", "queued", "queried"}
    /\ scan \in Adapters /\ current \in Adapters
    /\ posts \in Seq({"update", "complete", "stopRef", "refStopped"})

\* RunOnThread's assertion: when HandleUpdateRequired or HandlUpdateComplete
\* start a query the reference still runs, although it may have been asked to
\* stop; the calls of the API were all posted before its stop.
RefRunsWhenUsed ==
    /\ Handles("update") /\ items = 0 => ref = "RUNNING"
    /\ Handles("complete") /\ level # "STOPPING" => ref = "RUNNING"

\* A stopped service, which may be destroyed, is in no thread's hands: the API
\* does not call it, the pool runs no query for it and nothing is posted.
StoppedIsQuiet ==
    level = "STOPPED" =>
        /\ ~notifier /\ api = "idle" /\ thread = "idle"
        /\ posts = <<>> /\ pending = 0 /\ refStopped

\* The three threads agree about what is on its way and who may still be used.
Consistent == TypeOK /\ RefRunsWhenUsed /\ StoppedIsQuiet

\* Once the adapters stay as they are the service knows them, although changes
\* come at any point of a query that is already running.
Converges ==
    \A a \in Adapters :
        <>[](world = a /\ level = "RUNNING") => <>[](current = a)

\* The service reports its start when the adapters settle, and it stops.
StartsAndStops ==
    /\ (\E a \in Adapters : <>[](world = a)) => <>(level = "RUNNING")
    /\ stopping ~> level = "STOPPED"
=============================================================================
