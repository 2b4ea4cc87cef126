-------------------------------- MODULE Timer --------------------------------
(***************************************************************************)
(* bbox::rt::Timer, a single shot or periodic timer over one               *)
(* boost::asio steady timer.  Every start queues a new asynchronous wait *)
(* whose handler carries the sequence number of the start.  A wait that    *)
(* was cancelled still calls its handler, with an error, and one that had  *)
(* expired before the cancel calls it with success: the sequence numbers   *)
(* tell such a late timeout from the current one, and the count of pending *)
(* timeouts keeps the object alive until the last handler has run.         *)
(*                                                                         *)
(* Sequence numbers are only compared for equality, so a new one is any    *)
(* number no outstanding wait carries.  The asio timer is external: it     *)
(* holds at most one wait that has neither expired nor been cancelled, and *)
(* completes waits in any order.                                           *)
(***************************************************************************)
EXTENDS Naturals, FiniteSets

CONSTANTS
    MaxWaits,   \* bound on the waits outstanding when the owner starts one
    Times,      \* the num_times the owner passes to StartPeriodic
    Forever     \* RUN_FOR_EVER

TimerAssumption ==
    /\ MaxWaits \in Nat \ {0}
    /\ Forever \in Nat \ {0, 1}
    /\ Times \subseteq 0 .. Forever

Seq == 1 .. MaxWaits + 1

Done == {"no", "expired", "aborted"}

VARIABLES
    level,      \* the local run level
    stopping,   \* RequestStop has been called
    busy,       \* HandleTimeout is in m_callback
    cur,        \* m_cur_seq
    wait,       \* m_wait_seq
    periodic,   \* m_is_periodic
    remaining,  \* m_periodic_num_times_remaining
    pending,    \* m_pending_timeouts
    waits,      \* the asio waits: [seq, done]
    called      \* flips whenever m_callback is called (m_times_expired)

runVars == <<level, stopping>>
vars == <<runVars, busy, cur, wait, periodic, remaining, pending, waits, called>>

Init ==
    /\ level = "RUNNING" /\ stopping = FALSE /\ busy = FALSE
    /\ cur = 1 /\ wait = 0
    /\ periodic = FALSE /\ remaining = 0
    /\ pending = 0 /\ waits = {}
    /\ called = 0

IsRunning == wait = cur

-----------------------------------------------------------------------------
\* expires_from_now and cancel abort the wait that has not expired yet.
Abort(ws) == {IF w.done = "no" THEN [w EXCEPT !.done = "aborted"] ELSE w : w \in ws}

\* ++m_cur_seq
Fresh(ws) == Seq \ ({w.seq : w \in ws} \cup {cur})

\* Queue a wait beside the waits ws, of which n are counted.
Queue(ws, n) ==
    \E s \in Fresh(ws) :
        /\ cur' = s /\ wait' = s
        /\ waits' = Abort(ws) \cup {[seq |-> s, done |-> "no"]}
        /\ pending' = n + 1

NumLeft(n) == IF n < Forever THEN n - 1 ELSE n

StartSingleShot == Queue(waits, pending) /\ periodic' = FALSE /\ UNCHANGED remaining

StartPeriodic(times) == Queue(waits, pending) /\ periodic' = TRUE /\ remaining' = NumLeft(times)

Cancel ==
    /\ waits' = IF IsRunning THEN Abort(waits) ELSE waits
    /\ wait' = 0
    /\ UNCHANGED <<cur, periodic, remaining, pending>>

\* The owner uses the timer, in the callback too, while it has not asked it to
\* stop.  StartPeriodic with a count of zero cancels.
Use ==
    /\ level = "RUNNING" /\ ~stopping
    /\ \/ Cancel
       \/ /\ Cardinality(waits) < MaxWaits
          /\ StartSingleShot \/ \E times \in Times \ {0} : StartPeriodic(times)
    /\ UNCHANGED <<runVars, busy, called>>

\* asio: the deadline of the current wait passes.
Expire ==
    /\ ~busy
    /\ \E w \in waits :
          /\ w.done = "no"
          /\ waits' = (waits \ {w}) \cup {[w EXCEPT !.done = "expired"]}
    /\ UNCHANGED <<runVars, busy, cur, wait, periodic, remaining, pending, called>>

-----------------------------------------------------------------------------
\* Mutant: a timeout that had expired when the timer was stopped still counts.
CurrentLate(w) == w.done = "expired"

Current(w) == w.done = "expired" /\ IsRunning /\ wait = w.seq

CheckShutdown(n) == level' = IF level = "STOPPING" /\ n = 0 THEN "STOPPED" ELSE level

\* Mutant: the calls that are left are not counted down.
RearmForgetting(ws) == Queue(ws, pending - 1) /\ UNCHANGED remaining

\* The next of a run of calls.
Rearm(ws) == Queue(ws, pending - 1) /\ remaining' = NumLeft(remaining)

\* HandleTimeout up to the callback: a periodic timer is rearmed before it.
HandleTimeout(w) ==
    /\ ~busy /\ w.done # "no"
    /\ IF ~Current(w)
       THEN /\ waits' = waits \ {w} /\ pending' = pending - 1
            /\ CheckShutdown(pending - 1)
            /\ UNCHANGED <<stopping, busy, cur, wait, periodic, remaining, called>>
       ELSE /\ busy' = TRUE /\ called' = 1 - called
            /\ IF periodic /\ level # "STOPPING" /\ remaining > 0
               THEN Rearm(waits \ {w})
               ELSE /\ wait' = 0 /\ waits' = waits \ {w} /\ pending' = pending - 1
                    /\ UNCHANGED <<cur, remaining>>
            /\ UNCHANGED <<runVars, periodic>>

\* Mutant: a periodic timer is rearmed after its callback.
CallbackReturnsRearming ==
    /\ busy /\ busy' = FALSE
    /\ IF periodic /\ remaining > 0 /\ ~IsRunning
       THEN Queue(waits, pending) /\ UNCHANGED level
       ELSE CheckShutdown(pending) /\ UNCHANGED <<cur, wait, pending, waits>>
    /\ UNCHANGED <<stopping, periodic, remaining, called>>

\* The callback, in which the owner may have used the timer, returns.
CallbackReturns ==
    /\ busy /\ busy' = FALSE
    /\ CheckShutdown(pending)
    /\ UNCHANGED <<stopping, cur, wait, periodic, remaining, pending, waits, called>>

\* RequestStop by the owner, who has cancelled the timer before.
RequestStop ==
    /\ level = "RUNNING" /\ ~stopping /\ ~IsRunning
    /\ stopping' = TRUE
    /\ UNCHANGED <<level, busy, cur, wait, periodic, remaining, pending, waits, called>>

HandleStopping ==
    /\ ~busy /\ level = "RUNNING" /\ stopping
    /\ level' = IF pending = 0 THEN "STOPPED" ELSE "STOPPING"
    /\ UNCHANGED <<stopping, busy, cur, wait, periodic, remaining, pending, waits, called>>

Stopped == level = "STOPPED" /\ UNCHANGED vars

Next ==
    \/ Use \/ Expire \/ CallbackReturns \/ RequestStop \/ HandleStopping \/ Stopped
    \/ \E w \in waits : HandleTimeout(w)

Spec == Init /\ [][Next]_vars

\* Time passes and the proactor runs its handlers.
Fairness ==
    /\ WF_vars(Expire) /\ WF_vars(CallbackReturns) /\ WF_vars(HandleStopping)
    /\ \A s \in Seq, d \in {"expired", "aborted"} :
          WF_vars([seq |-> s, done |-> d] \in waits /\ HandleTimeout([seq |-> s, done |-> d]))

FairSpec == Spec /\ Fairness

-----------------------------------------------------------------------------
\* The variables have their types.
TypeOK ==
    /\ level \in {"RUNNING", "STOPPING", "STOPPED"}
    /\ stopping \in BOOLEAN /\ busy \in BOOLEAN /\ periodic \in BOOLEAN
    /\ cur \in Seq /\ wait \in Seq \cup {0}
    /\ remaining \in 0 .. Forever
    /\ pending \in Nat
    /\ waits \subseteq [seq : Seq, done : Done]
    /\ called \in {0, 1}

\* m_pending_timeouts counts exactly the handlers asio still has to call, so
\* its assertion in HandleTimeout holds and a stopped timer, which its owner
\* may destroy, has none left that would run on it.
PendingCounted ==
    /\ pending = Cardinality(waits)
    /\ level = "STOPPED" => waits = {}

\* A running timer has the one wait that makes it fire; every other wait has
\* expired too late or was aborted, and no two waits share a number.
RunningWillFire ==
    /\ IsRunning => \E w \in waits : w.seq = wait /\ w.done # "aborted"
    /\ \A w \in waits : w.done = "no" => IsRunning /\ w.seq = wait
    /\ \A v, w \in waits : v.seq = w.seq => v = w

\* The assertion of HandleStopping: the timer is not running when it stops,
\* whatever its owner and late timeouts did before.
StoppedWhenIdle == stopping => ~IsRunning

\* The three together: what asio, the counters and the owner believe about the
\* outstanding timeouts agrees, whatever was started and cancelled before.
Consistent == TypeOK /\ PendingCounted /\ RunningWillFire /\ StoppedWhenIdle

\* The calls that the owner still has to expect.
Owed == IF ~IsRunning THEN 0
        ELSE IF ~periodic THEN 1
        ELSE IF remaining = Forever THEN Forever ELSE remaining + 1

Owner == INSTANCE Trigger WITH armed <- Owed, Counts <- Times \cup {0, 1}

\* What is owed changes with a call or when the owner uses the timer, and never
\* else: no late timeout, restart or return of the callback arms or disarms it.
OwnerArms == [][called' = called /\ Owed' # Owed => Use]_vars

\* The owner sees a Trigger that it alone arms: calls come only while it is
\* armed, each is one less of those asked for, cancelling takes effect at once
\* even when the timeout has expired already, and a stop ends.
ImplementsTrigger == Owner!Promise /\ OwnerArms

\* A timer that was started calls back unless it is used again before.
FiresInTime ==
    \A s \in Seq : wait = s /\ IsRunning ~> ~(IsRunning /\ wait = s)
=============================================================================
