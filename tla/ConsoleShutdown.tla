--------------------------- MODULE ConsoleShutdown ---------------------------
(***************************************************************************)
(* ConsoleShutdownService stops the proactor when the process is sent      *)
(* SIGINT, SIGTERM or SIGHUP.  The signal handler runs in any thread, on   *)
(* top of what that thread is doing, be it the handler of another signal.  *)
(* It takes a mutex, looks the service up, and calls RequestStop of the    *)
(* proactor when the local level of the service is RUNNING.  The           *)
(* constructor and the destructor of the service take the same mutex.      *)
(*                                                                         *)
(* The levels of the proactor and of the service follow ResourceLifecycle: *)
(* the service runs before the proactor does, and stops after it began to. *)
(* A signal interrupts the main thread between two of its handlers.        *)
(***************************************************************************)
EXTENDS Naturals, Sequences

CONSTANTS
    Main,       \* the thread of the proactor
    Others,     \* other threads of the process
    Signals,    \* the signals that are handled
    MaxSignals  \* bound on the signals sent

ConsoleAssumption == Main \notin Others /\ MaxSignals \in Nat

Threads == {Main} \cup Others

VARIABLES
    pc,         \* where the main thread is
    pointer,    \* ServicePointer() is set
    alive,      \* the service is constructed
    installed,  \* the signal handler is installed
    root,       \* the proactor's overall run level
    local,      \* the service's local run level
    frames,     \* of each thread, the signal handlers it is in, innermost first
    mutex,      \* who holds g_mutex: nobody, or a thread and its depth
    sent,       \* the signals sent so far
    aborted     \* an assertion has failed

svc == <<pointer, alive, installed>>
levels == <<root, local>>
vars == <<pc, svc, levels, frames, mutex, sent, aborted>>

Nobody == <<>>
Depth(t) == Len(frames[t])
MainRuns(at) == ~aborted /\ pc = at /\ frames[Main] = <<>>

Init ==
    /\ pc = "start"
    /\ pointer = FALSE /\ alive = FALSE /\ installed = FALSE
    /\ root = "CONSTRUCTED" /\ local = "CONSTRUCTED"
    /\ frames = [t \in Threads |-> <<>>]
    /\ mutex = Nobody /\ sent = 0 /\ aborted = FALSE

-----------------------------------------------------------------------------
\* The main thread.
Construct ==
    /\ MainRuns("start") /\ mutex = Nobody
    /\ mutex' = <<Main, 0>> /\ pc' = "constructing"
    /\ pointer' = TRUE /\ alive' = TRUE /\ installed' = TRUE
    /\ UNCHANGED <<levels, frames, sent, aborted>>

Constructed ==
    /\ MainRuns("constructing") /\ pc' = "run" /\ mutex' = Nobody
    /\ root' = "STARTING"
    /\ UNCHANGED <<svc, local, frames, sent, aborted>>

\* The levels the proactor's handlers move.
Handle ==
    /\ MainRuns("run")
    /\ \/ root = "STARTING" /\ local = "CONSTRUCTED" /\ local' = "RUNNING" /\ UNCHANGED root
       \/ root = "STARTING" /\ local = "RUNNING" /\ root' = "RUNNING" /\ UNCHANGED local
       \/ root = "STOPPING" /\ local = "RUNNING" /\ local' = "STOPPED" /\ UNCHANGED root
       \/ root = "STOPPING" /\ local = "STOPPED" /\ root' = "STOPPED" /\ UNCHANGED local
    /\ UNCHANGED <<pc, svc, frames, mutex, sent, aborted>>

\* Run has returned, the destructor clears the pointer.
Destruct ==
    /\ MainRuns("run") /\ root = "STOPPED" /\ mutex = Nobody
    /\ mutex' = <<Main, 0>> /\ pc' = "destructing"
    /\ pointer' = FALSE /\ installed' = FALSE
    /\ UNCHANGED <<alive, levels, frames, sent, aborted>>

Destructed ==
    /\ MainRuns("destructing") /\ pc' = "end"
    /\ mutex' = Nobody /\ alive' = FALSE
    /\ UNCHANGED <<pointer, installed, levels, frames, sent, aborted>>

-----------------------------------------------------------------------------
\* ctrl_c_handler in thread t, where the innermost handler is <<signal, at>>.
Top(t, at) == frames[t] # <<>> /\ Head(frames[t])[2] = at

Goto(t, at) == frames' = [frames EXCEPT ![t] = <<<<Head(@)[1], at>>>> \o Tail(@)]

\* A signal is blocked in a thread while that thread handles it.
Signal(t, s) ==
    /\ ~aborted /\ installed /\ sent < MaxSignals
    /\ \A i \in DOMAIN frames[t] : frames[t][i][1] # s
    /\ sent' = sent + 1
    /\ frames' = [frames EXCEPT ![t] = <<<<s, "entered">>>> \o @]
    /\ UNCHANGED <<pc, svc, levels, mutex, aborted>>

Lock(t) ==
    /\ ~aborted /\ Top(t, "entered") /\ mutex = Nobody
    /\ mutex' = <<t, Depth(t)>> /\ Goto(t, "locked")
    /\ UNCHANGED <<pc, svc, levels, sent, aborted>>

\* The pointer and the service's level are read.
Check(t) ==
    /\ ~aborted /\ Top(t, "locked")
    /\ Goto(t, IF pointer /\ local = "RUNNING" THEN "stopping" ELSE "done")
    /\ UNCHANGED <<pc, svc, levels, mutex, sent, aborted>>

\* Proactor::RequestStop asserts that the proactor's overall level is RUNNING.
RequestStop(t) ==
    /\ ~aborted /\ Top(t, "stopping") /\ Goto(t, "done")
    /\ aborted' = (root # "RUNNING")
    /\ root' = IF root = "RUNNING" THEN "STOPPING" ELSE root
    /\ UNCHANGED <<pc, svc, local, mutex, sent>>

Return(t) ==
    /\ ~aborted /\ Top(t, "done") /\ mutex' = Nobody
    /\ frames' = [frames EXCEPT ![t] = Tail(@)]
    /\ UNCHANGED <<pc, svc, levels, sent, aborted>>

-----------------------------------------------------------------------------
\* A thread waits for the mutex that it holds further down its own stack.
SelfDeadlock == \E t \in Threads : mutex # Nobody /\ mutex[1] = t /\ Top(t, "entered")

\* The process has ended, hangs, or waits for a signal that is not sent.
Idle ==
    /\ aborted \/ pc = "end" \/ SelfDeadlock \/ root = "RUNNING"
    /\ UNCHANGED vars

MainStep == Construct \/ Constructed \/ Handle \/ Destruct \/ Destructed
SignalStep(t) == Lock(t) \/ Check(t) \/ RequestStop(t) \/ Return(t)

Next ==
    \/ MainStep
    \/ \E t \in Threads : SignalStep(t) \/ \E s \in Signals : Signal(t, s)
    \/ Idle

Spec == Init /\ [][Next]_vars

\* All threads run, and a thread that waits for the mutex gets it some time.
FairSpec == Spec /\ SF_vars(MainStep) /\ \A t \in Threads : SF_vars(SignalStep(t))

-----------------------------------------------------------------------------
\* The variables have their types; the mutex is held by the main thread's own
\* code or by a signal handler that has not returned.
TypeOK ==
    /\ pc \in {"start", "constructing", "run", "destructing", "end"}
    /\ pointer \in BOOLEAN /\ alive \in BOOLEAN /\ installed \in BOOLEAN
    /\ root \in {"CONSTRUCTED", "STARTING", "RUNNING", "STOPPING", "STOPPED"}
    /\ local \in {"CONSTRUCTED", "RUNNING", "STOPPED"}
    /\ \A t \in Threads : \A i \in DOMAIN frames[t] :
          frames[t][i] \in Signals \X {"entered", "locked", "stopping", "done"}
    /\ mutex \in {Nobody, <<Main, 0>>} \cup UNION {{t} \X (1 .. Depth(t)) : t \in Threads}
    /\ sent \in 0 .. MaxSignals /\ aborted \in BOOLEAN

\* A signal handler that uses the service, in whatever thread, uses one that
\* has not been destroyed.
UsesLiveService ==
    \A t \in Threads : (Top(t, "locked") /\ pointer) \/ Top(t, "stopping") => alive

\* The mutex and the service pointer agree with what every thread is doing.
Consistent == TypeOK /\ UsesLiveService

\* A signal that finds everything running, and no other signal before it, ends
\* the process, unless a further signal aborts or hangs it.
SignalStops ==
    (\E t \in Threads : Top(t, "stopping")) /\ root = "RUNNING"
        ~> pc = "end" \/ aborted \/ SelfDeadlock

\* "If running, RequestStop can be called" (ResourceBase::GetOverallRunLevel):
\* the handler only calls RequestStop when the proactor is RUNNING.
RequestStopWhenRunning ==
    \A t \in Threads : Top(t, "stopping") => root = "RUNNING"
=============================================================================
