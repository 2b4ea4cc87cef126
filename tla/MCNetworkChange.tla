-------------------------- MODULE MCNetworkChange ---------------------------
(***************************************************************************)
(* The network change service as it is built for Linux, with two handlers  *)
(* and one adapter or another or none, or for Windows, with up to three    *)
(* calls of the API waiting.  The variables of the service that is not in  *)
(* the build keep their initial values.                                    *)
(***************************************************************************)
EXTENDS NetworkChange

CONSTANTS MaxPending, ethernet, wifi

VARIABLES build, notifier, notice, api, wlevel, wstopping, pending, another,
          ref, refStopped, items, wthread, wscan, wcurrent, posts

Win32 == INSTANCE Win32NetworkChange WITH
    level <- wlevel, stopping <- wstopping, thread <- wthread, scan <- wscan, current <- wcurrent

ASSUME MCNetworkChangeAssumption == Win32!Win32Assumption

MCAdapters == {{}, {ethernet}, {wifi}}

linux == <<failing, svc, pool, hnd>>
win32 == <<notifier, notice, api, wlevel, wstopping, pending, another,
           ref, refStopped, items, wthread, wscan, wcurrent, posts>>
allVars == <<build, world, linux, win32>>

Linux(A) == build = "linux" /\ A /\ UNCHANGED <<build, win32>>
Windows(A) == build = "win32" /\ A /\ UNCHANGED <<build, linux>>

MCInit == build \in {"linux", "win32"} /\ Init /\ Win32!Init

MCNext == Linux(Next) \/ Windows(Win32!Next)

\* The fairness each service assumes, in its own build.
MCSpec ==
    /\ MCInit /\ [][MCNext]_allVars
    /\ WF_allVars(Linux(HandleStarting)) /\ WF_allVars(Linux(DoDetectionInThreadPool))
    /\ WF_allVars(Linux(HandleDetectionCompleted)) /\ WF_allVars(Linux(HandleDetectionTimerExpired))
    /\ WF_allVars(Linux(HandleStopping))
    /\ \A h \in Handlers :
          WF_allVars(Linux(HandlerStarting(h))) /\ WF_allVars(Linux(HandlerStopping(h)))
    /\ WF_allVars(Windows(Win32!HandleStarting)) /\ WF_allVars(Windows(Win32!TriggerUpdate))
    /\ WF_allVars(Windows(Win32!RequestAdapters)) /\ WF_allVars(Windows(Win32!Handler))
    /\ SF_allVars(Windows(Win32!HandleStopping))

-----------------------------------------------------------------------------
\* Win32NetworkChange's three threads agree: its Consistent.
Win32Consistent == Win32!Consistent

\* The service that is built comes to know the adapters, and its handlers do.
BothConverge == Converges /\ Win32!Converges

\* The service that is built starts, and stops when it is told to.
BothStartAndStop ==
    (build = "linux" => StartsAndStops) /\ (build = "win32" => Win32!StartsAndStops)
=============================================================================
