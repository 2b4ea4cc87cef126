----------------------------- MODULE ThreadPool ------------------------------
(***************************************************************************)
(* bbox::rt::ThreadPool, one thread that runs work beside the proactor's,  *)
(* and the ThreadPoolRefs through which services use it.                   *)
(*                                                                         *)
(* The proactor's thread and the pool's share the queue, the finished flag *)
(* and a counter under a mutex, and a condition variable; whole critical   *)
(* sections are one step.  Whatever the pool's thread has for the proactor *)
(* is posted to it and runs in the order it was posted.  An item of work   *)
(* is the reference it came through.                                       *)
(***************************************************************************)
EXTENDS Naturals, FiniteSets, SequencesExt

CONSTANTS
    Refs,       \* the references to the pool
    MaxItems    \* bound on the items a reference has in progress

ThreadPoolAssumption == MaxItems \in Nat \ {0} /\ "threadCompleted" \notin Refs

Posts == Refs \cup {"threadCompleted"}

VARIABLES
    level,      \* of each reference, the local run level
    stopping,   \* the references, and the pool, RequestStop was called for
    items,      \* m_items_in_progress of each reference
    pool,       \* the pool's local run level
    queue,      \* m_queue
    finished,   \* m_finished
    progress,   \* m_items_in_progress of the pool
    thread,     \* where the pool's thread is
    entry,      \* the item the thread holds, a sequence of at most one
    posted      \* what the thread has posted to the proactor

refVars == <<level, stopping, items>>
shared == <<queue, finished, progress>>
threadVars == <<thread, entry, posted>>
vars == <<refVars, pool, shared, threadVars>>

Init ==
    /\ level = [r \in Refs |-> "RUNNING"] /\ stopping = {}
    /\ items = [r \in Refs |-> 0]
    /\ pool = "RUNNING"
    /\ queue = <<>> /\ finished = FALSE /\ progress = 0
    /\ thread = "looking" /\ entry = <<>> /\ posted = <<>>

\* notify_all
Notify == thread' = IF thread = "waiting" THEN "looking" ELSE thread

-----------------------------------------------------------------------------
\* The proactor's thread.

Post(more) ==
    /\ queue' = queue \o more /\ progress' = progress + Len(more)
    /\ IF more = <<>> THEN UNCHANGED thread ELSE Notify
    /\ UNCHANGED finished

\* One item at most is more.
Added(is, more) == [r \in Refs |-> IF more = <<r>> THEN is[r] + 1 ELSE is[r]]

MayRun(r) == level[r] = "RUNNING" /\ items[r] < MaxItems

RunOnThread(r) ==
    /\ MayRun(r)
    /\ items' = Added(items, <<r>>)
    /\ Post(<<r>>)
    /\ UNCHANGED <<level, stopping, pool, entry, posted>>

CheckStopped(r, l, n) ==
    level' = [level EXCEPT ![r] = IF l = "STOPPING" /\ n = 0 THEN "STOPPED" ELSE l]

\* The lambda RunOnThread hands to the pool; completion_handler may run more.
Completed ==
    /\ posted # <<>> /\ Head(posted) \in Refs
    /\ posted' = Tail(posted)
    /\ \E more \in {<<>>} \cup {<<m>> : m \in {q \in Refs : MayRun(q)}} :
          LET r == Head(posted) IN
          /\ items' = Added([items EXCEPT ![r] = @ - 1], more)
          /\ Post(more)
          /\ CheckStopped(r, level[r], items[r] - 1)
    /\ UNCHANGED <<stopping, pool, entry>>

RequestStop(r) ==
    /\ r \notin stopping /\ stopping' = stopping \cup {r}
    /\ UNCHANGED <<level, items, pool, shared, threadVars>>

\* ThreadPoolRef::HandleStopping
HandleRefStopping(r) ==
    /\ r \in stopping /\ level[r] = "RUNNING"
    /\ CheckStopped(r, "STOPPING", items[r])
    /\ UNCHANGED <<stopping, items, pool, shared, threadVars>>

\* Mutant: the flag is set and the thread left waiting.
HandleStoppingSilently ==
    /\ pool = "RUNNING" /\ \A r \in Refs : level[r] = "STOPPED"
    /\ pool' = "STOPPING" /\ finished' = TRUE
    /\ UNCHANGED <<refVars, queue, progress, threadVars>>

\* ThreadPool::HandleStopping, once the references have stopped.
HandleStopping ==
    /\ pool = "RUNNING" /\ \A r \in Refs : level[r] = "STOPPED"
    /\ pool' = "STOPPING" /\ finished' = TRUE /\ Notify
    /\ UNCHANGED <<refVars, queue, progress, entry, posted>>

\* NotifyThreadCompleted, which joins the thread.
NotifyThreadCompleted ==
    /\ posted # <<>> /\ Head(posted) = "threadCompleted"
    /\ thread = "exited"
    /\ posted' = Tail(posted)
    /\ pool' = "STOPPED"
    /\ UNCHANGED <<refVars, shared, thread, entry>>

-----------------------------------------------------------------------------
\* The pool's thread.

\* Mutant: the newest item is run first.
TakeNewest ==
    /\ entry' = <<Last(queue)>> /\ queue' = Front(queue)

Take == entry' = <<Head(queue)>> /\ queue' = Tail(queue)

\* ThreadFunc's critical section: take an item, leave the loop or wait.
Look ==
    /\ thread = "looking"
    /\ \/ queue # <<>> /\ Take /\ thread' = "running"
       \/ queue = <<>> /\ finished /\ thread' = "leaving" /\ UNCHANGED <<queue, entry>>
       \/ queue = <<>> /\ ~finished /\ thread' = "waiting" /\ UNCHANGED <<queue, entry>>
    /\ UNCHANGED <<refVars, pool, finished, progress, posted>>

\* A condition variable may wake up for no reason.
WakeSpuriously ==
    /\ thread = "waiting" /\ thread' = "looking"
    /\ UNCHANGED <<refVars, pool, shared, entry, posted>>

\* RunItem posts the completion, whether the function returns or throws.
RunItem ==
    /\ thread = "running" /\ thread' = "counting"
    /\ posted' = posted \o entry /\ entry' = <<>>
    /\ UNCHANGED <<refVars, pool, shared>>

Count ==
    /\ thread = "counting" /\ thread' = "looking"
    /\ progress' = progress - 1
    /\ UNCHANGED <<refVars, pool, queue, finished, entry, posted>>

Leave ==
    /\ thread = "leaving" /\ thread' = "exiting"
    /\ posted' = Append(posted, "threadCompleted")
    /\ UNCHANGED <<refVars, pool, shared, entry>>

Exit ==
    /\ thread = "exiting" /\ thread' = "exited"
    /\ UNCHANGED <<refVars, pool, shared, entry, posted>>

-----------------------------------------------------------------------------
Stopped == pool = "STOPPED" /\ UNCHANGED vars

Handler == Completed \/ NotifyThreadCompleted
ThreadStep == Look \/ RunItem \/ Count \/ Leave \/ Exit

Next ==
    \/ \E r \in Refs : RunOnThread(r) \/ RequestStop(r) \/ HandleRefStopping(r)
    \/ HandleStopping \/ Handler \/ ThreadStep \/ WakeSpuriously \/ Stopped

Spec == Init /\ [][Next]_vars

\* Both threads run, and the proactor handles what was posted to it.
FairSpec ==
    /\ Spec
    /\ WF_vars(Handler) /\ WF_vars(ThreadStep) /\ WF_vars(HandleStopping)
    /\ \A r \in Refs : WF_vars(HandleRefStopping(r))

-----------------------------------------------------------------------------
Levels == {"RUNNING", "STOPPING", "STOPPED"}

\* The variables have their types; the pool's counter never wraps below zero.
TypeOK ==
    /\ level \in [Refs -> Levels] /\ stopping \subseteq Refs
    /\ items \in [Refs -> 0 .. MaxItems]
    /\ pool \in Levels
    /\ \A i \in DOMAIN queue : queue[i] \in Refs
    /\ finished \in BOOLEAN /\ progress \in Nat
    /\ thread \in {"looking", "waiting", "running", "counting", "leaving", "exiting", "exited"}
    /\ Len(entry) <= 1 /\ \A i \in DOMAIN entry : entry[i] \in Refs
    /\ \A i \in DOMAIN posted : posted[i] \in Posts

\* What is posted of items; the thread's own completion comes after all of them.
Completions ==
    IF posted # <<>> /\ Last(posted) = "threadCompleted" THEN Front(posted) ELSE posted

\* All the work on its way through both threads, oldest first.
Outstanding == Completions \o entry \o queue

\* How many of the items in s came through r.
NumberOf(r, s) == Cardinality({i \in DOMAIN s : s[i] = r})

\* Each reference counts its work wherever it is, so that its assertions hold
\* and none is left when it has stopped and may be destroyed; and what the pool
\* counts as in progress is what its thread has still to do.
ItemsCounted ==
    /\ \A r \in Refs :
          /\ items[r] = NumberOf(r, Outstanding)
          /\ level[r] = "STOPPED" => items[r] = 0
    /\ progress = Len(queue) + (IF thread \in {"running", "counting"} THEN 1 ELSE 0)

\* The assertion in Pimpl::Post: no work reaches a pool told to finish, its
\* thread leaves nothing behind, and the pool has joined it when it stops.
NothingAfterFinished ==
    /\ finished => queue = <<>> /\ \A r \in Refs : level[r] = "STOPPED"
    /\ pool = "STOPPED" => thread = "exited" /\ posted = <<>>

\* The two threads and the references agree about every item, and none of them
\* outlives what it uses.
Consistent == TypeOK /\ ItemsCounted /\ NothingAfterFinished

\* Both threads together are a WorkService.
Promise == INSTANCE WorkService WITH outstanding <- Outstanding

IsWorkService == Promise!Service

\* A reference that is told to stop stops, and when all have stopped the pool
\* does: no wake up of its thread is lost.
StopCompletes ==
    /\ \A r \in Refs : r \in stopping ~> level[r] = "STOPPED"
    /\ stopping = Refs ~> pool = "STOPPED"
=============================================================================
