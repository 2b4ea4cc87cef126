----------------------------- MODULE OneShotWork -----------------------------
(***************************************************************************)
(* bbox::rt::OneShotWork posts a callback to the proactor, at most one at  *)
(* a time however often it is scheduled.  A posted handler can not be      *)
(* taken back, so a cancelled one still runs and must find that it was     *)
(* cancelled, even when the work has been scheduled again since: handlers  *)
(* run in the order they were posted, so counting them tells which         *)
(* schedule a handler belongs to.                                          *)
(***************************************************************************)
EXTENDS Naturals

CONSTANT MaxTokens      \* bound on the schedules that post a handler

ASSUME OneShotWorkAssumption == MaxTokens \in Nat \ {0}

VARIABLES
    level,      \* the local run level
    stopping,   \* RequestStop has been called, its update work is posted
    busy,       \* DoCallback is in m_callback
    next,       \* m_next_token
    pending,    \* m_pending_token
    last,       \* m_last_resolved_token
    posted,     \* the DoCallback handlers in the proactor's queue
    called      \* flips with every call of m_callback

vars == <<level, stopping, busy, next, pending, last, posted, called>>

Init ==
    /\ level = "RUNNING" /\ stopping = FALSE /\ busy = FALSE
    /\ next = 1 /\ pending = 0 /\ last = 0
    /\ posted = 0
    /\ called = 0

-----------------------------------------------------------------------------
\* Scheduling what is scheduled already changes nothing.
Schedule ==
    /\ pending = 0 /\ pending' = next
    /\ next' = next + 1 /\ posted' = posted + 1

Cancel == pending' = 0 /\ UNCHANGED <<next, posted>>

\* The owner, from another handler or from the callback: both assert that the
\* local level is RUNNING, which it is until HandleStopping.
Use ==
    /\ level = "RUNNING"
    /\ Cancel \/ (next <= MaxTokens /\ Schedule)
    /\ UNCHANGED <<level, stopping, busy, last, called>>

-----------------------------------------------------------------------------
\* Mutant: cancelled handlers are not waited for.
CheckShutdownAtOnce(l) == level' = IF level = "STOPPING" THEN "STOPPED" ELSE level

CheckShutdown(l) == level' = IF level = "STOPPING" /\ l + 1 = next THEN "STOPPED" ELSE level

\* DoCallback up to m_callback, or all of it when its schedule was cancelled.
DoCallback ==
    /\ ~busy /\ posted > 0
    /\ posted' = posted - 1 /\ last' = last + 1
    /\ IF pending = last + 1
       THEN /\ pending' = 0 /\ busy' = TRUE /\ called' = 1 - called
            /\ UNCHANGED level
       ELSE CheckShutdown(last + 1) /\ UNCHANGED <<pending, busy, called>>
    /\ UNCHANGED <<stopping, next>>

CallbackReturns ==
    /\ busy /\ busy' = FALSE
    /\ CheckShutdown(last)
    /\ UNCHANGED <<stopping, next, pending, last, posted, called>>

RequestStop ==
    /\ level = "RUNNING" /\ ~stopping /\ stopping' = TRUE
    /\ UNCHANGED <<level, busy, next, pending, last, posted, called>>

HandleStopping ==
    /\ ~busy /\ level = "RUNNING" /\ stopping
    /\ pending' = 0
    /\ level' = IF last + 1 = next THEN "STOPPED" ELSE "STOPPING"
    /\ UNCHANGED <<stopping, busy, next, last, posted, called>>

Stopped == level = "STOPPED" /\ UNCHANGED vars

Next ==
    \/ Use \/ DoCallback \/ CallbackReturns \/ RequestStop \/ HandleStopping \/ Stopped

Spec == Init /\ [][Next]_vars

\* The proactor runs what is posted to it, and callbacks return.
FairSpec ==
    /\ Spec
    /\ WF_vars(DoCallback) /\ WF_vars(CallbackReturns) /\ WF_vars(HandleStopping)

-----------------------------------------------------------------------------
\* The variables have their types.
TypeOK ==
    /\ level \in {"RUNNING", "STOPPING", "STOPPED"}
    /\ stopping \in BOOLEAN /\ busy \in BOOLEAN
    /\ next \in 1 .. MaxTokens + 1
    /\ pending \in 0 .. MaxTokens
    /\ last \in 0 .. MaxTokens
    /\ posted \in Nat
    /\ called \in {0, 1}

\* The tokens say exactly which handlers are queued: the assertion in
\* DoCallback holds, the handlers of a scheduled work include its own, which is
\* the last of them, and when the work stops, and its owner may destroy it, no
\* handler that would run on it is left and none is running.
TokensMatchPosted ==
    /\ posted = next - 1 - last
    /\ pending # 0 => last < pending /\ pending = next - 1
    /\ level = "STOPPED" => posted = 0 /\ ~busy

\* The tokens, the queue and the run level agree, of whatever types they are.
Consistent == TypeOK /\ TokensMatchPosted

\* The owner's view: one call is owed while a schedule is pending.
Owner == INSTANCE Trigger WITH
    armed <- IF pending = 0 THEN 0 ELSE 1, Counts <- {0, 1}, Forever <- 2

\* A schedule is made or taken back by the owner alone; else it ends with its
\* call or with the stop.
OwnerSchedules == [][called' = called /\ level' = level /\ pending' # pending => Use]_vars

\* The owner sees a Trigger that it alone arms: one call for a schedule and none
\* once it has been cancelled or the work has begun to stop.
ImplementsTrigger == Owner!Promise /\ OwnerSchedules

\* Its safety part.
KeepsPromise == Owner!Safety /\ OwnerSchedules

\* Scheduled work is run, whatever was queued or cancelled before it.
ScheduledRuns == pending # 0 ~> pending = 0
=============================================================================
