----------------------------- MODULE MCSchedulers -----------------------------
(***************************************************************************)
(* The helpers through which services have something done later or         *)
(* elsewhere: a OneShotWork with up to eight schedules; a Timer whose      *)
(* owner asks for two calls or calls without end, with up to three waits   *)
(* outstanding; a ThreadPool for two services with up to three items each; *)
(* the console shutdown service with three signals of two kinds, in the    *)
(* proactor's thread and one other; and the audio thread with a keyboard   *)
(* of two notes that is up to two events ahead.  The variables of the      *)
(* helpers that are not in the build keep their initial values.            *)
(***************************************************************************)
EXTENDS OneShotWork, Sequences

CONSTANTS MaxWaits, Times, Forever, Refs, MaxItems, Main, Others, Signals, MaxSignals,
          Notes, MaxEvents

VARIABLES build,
          tlevel, tstopping, tbusy, cur, wait, periodic, remaining, tpending, waits, tcalled,
          plevel, pstopping, items, pool, queue, finished, progress, thread, entry, pposted,
          pc, pointer, alive, installed, root, local, frames, mutex, sent, aborted,
          alevel, requested, flag, aposted, at, driver, call, palive, closed, events,
          card, wants, bufferOpen, synth, held

Timing == INSTANCE Timer WITH
    level <- tlevel, stopping <- tstopping, busy <- tbusy, pending <- tpending, called <- tcalled

Pool == INSTANCE ThreadPool WITH level <- plevel, stopping <- pstopping, posted <- pposted

Console == INSTANCE ConsoleShutdown

Audio == INSTANCE AudioThread WITH level <- alevel, posted <- aposted, alive <- palive

ASSUME MCSchedulersAssumption ==
    /\ Timing!TimerAssumption /\ Pool!ThreadPoolAssumption
    /\ Console!ConsoleAssumption /\ Audio!AudioAssumption

timer == <<tlevel, tstopping, tbusy, cur, wait, periodic, remaining, tpending, waits, tcalled>>
threads == <<plevel, pstopping, items, pool, queue, finished, progress, thread, entry, pposted>>
console == <<pc, pointer, alive, installed, root, local, frames, mutex, sent, aborted>>
audio == <<alevel, requested, flag, aposted, at, driver, call, palive, closed, events,
           card, wants, bufferOpen, synth, held>>
allVars == <<build, vars, timer, threads, console, audio>>

Work(A) == build = "work" /\ A /\ UNCHANGED <<build, timer, threads, console, audio>>
Time(A) == build = "timer" /\ A /\ UNCHANGED <<build, vars, threads, console, audio>>
Thread(A) == build = "pool" /\ A /\ UNCHANGED <<build, vars, timer, console, audio>>
Signalled(A) == build = "console" /\ A /\ UNCHANGED <<build, vars, timer, threads, audio>>
Rendering(A) == build = "audio" /\ A /\ UNCHANGED <<build, vars, timer, threads, console>>

MCInit ==
    /\ build \in {"work", "timer", "pool", "console", "audio"}
    /\ Init /\ Timing!Init /\ Pool!Init /\ Console!Init /\ Audio!Init

MCNext ==
    \/ Work(Next) \/ Time(Timing!Next) \/ Thread(Pool!Next)
    \/ Signalled(Console!Next) \/ Rendering(Audio!Next)

\* The fairness each helper assumes, in its own build.
MCSpec ==
    /\ MCInit /\ [][MCNext]_allVars
    /\ WF_allVars(Work(DoCallback)) /\ WF_allVars(Work(CallbackReturns)) /\ WF_allVars(Work(HandleStopping))
    /\ WF_allVars(Time(Timing!Expire)) /\ WF_allVars(Time(Timing!CallbackReturns))
    /\ WF_allVars(Time(Timing!HandleStopping))
    /\ \A s \in Timing!Seq, d \in {"expired", "aborted"} :
          WF_allVars(Time([seq |-> s, done |-> d] \in waits /\ Timing!HandleTimeout([seq |-> s, done |-> d])))
    /\ WF_allVars(Thread(Pool!Handler)) /\ WF_allVars(Thread(Pool!ThreadStep))
    /\ WF_allVars(Thread(Pool!HandleStopping))
    /\ \A r \in Refs : WF_allVars(Thread(Pool!HandleRefStopping(r)))
    /\ SF_allVars(Signalled(Console!MainStep))
    /\ \A t \in Console!Threads : SF_allVars(Signalled(Console!SignalStep(t)))
    /\ WF_allVars(Rendering(Audio!HandleStopping)) /\ WF_allVars(Rendering(Audio!Join))
    /\ WF_allVars(Rendering(Audio!ThreadStep)) /\ WF_allVars(Rendering(Audio!ReportClose))
    /\ WF_allVars(Rendering(Audio!MidiInProc))
    /\ WF_allVars(Rendering(card = "open" /\ Audio!WantSamples))

-----------------------------------------------------------------------------
\* Three of the others agree within themselves: the timer with asio about the waits
\* outstanding, the two threads of the pool about every item, and the console's
\* mutex and pointer with what every thread is doing.
OthersConsistent == Timing!Consistent /\ Pool!Consistent /\ Console!Consistent

\* The audio thread, the proactor's and the keyboard's driver agree about what is
\* there to be called, and the keyboard and the synth about what sounds.
AudioConsistent == Audio!Consistent

\* Whoever uses a OneShotWork or a Timer sees a Trigger, and both threads of the
\* pool together are a WorkService.
ImplementPromises == ImplementsTrigger /\ Timing!ImplementsTrigger /\ Pool!IsWorkService

\* Scheduled work runs, a timer fires, the stops of the pool and of the audio
\* thread complete and a signal ends the process.
AllProgress ==
    /\ ScheduledRuns /\ Timing!FiresInTime /\ Pool!StopCompletes
    /\ Console!SignalStops /\ Audio!StopCompletes
=============================================================================
