----------------------------- MODULE AudioThread ------------------------------
(***************************************************************************)
(* AudioService's WindowsAudioThread: a thread of its own that waits until *)
(* the sound card wants samples, gives the synth what the keyboard has     *)
(* played and fills the buffer, until the proactor's thread sets a flag.   *)
(* The keyboard's driver calls MidiInProc from a third thread, with a bare *)
(* pointer to MidiIn's Pimpl, and once more when it has closed.  The audio *)
(* thread closes everything itself and then has the proactor join it.      *)
(*                                                                         *)
(* Both sides take the mutex around m_events for one operation, which is   *)
(* one step.  The driver and the sound card are external: the driver ends  *)
(* one call before it makes another and reports its close last, and a card *)
(* that is lost may fail every call, or never want samples again.          *)
(***************************************************************************)
EXTENDS Naturals, SequencesExt

CONSTANTS
    Notes,      \* the notes of the keyboard
    MaxEvents   \* bound on the events the keyboard is ahead

AudioAssumption == MaxEvents \in Nat \ {0}

VARIABLES
    level,      \* the local run level of the thread, a Resource
    requested,  \* RequestStop has been called
    flag,       \* m_stopping
    posted,     \* Join has been posted
    at,         \* where the audio thread is
    driver,     \* the keyboard: "none", "started", "stopped" or "closed"
    call,       \* what MidiInProc is called with, a sequence of at most one
    alive,      \* MidiIn's Pimpl is there
    closed,     \* its m_closed
    events,     \* its m_events
    card,       \* the sound card: "closed", "open" or "lost"
    wants,      \* the event the card sets when it wants samples
    bufferOpen, \* m_buffer_open
    synth,      \* of each note: no Note for it, one that is on or one that fades
    held        \* the keys that are down

proactor == <<level, requested, flag>>
midi == <<driver, call, alive, closed, events, held>>
renderer == <<card, wants, bufferOpen>>
vars == <<proactor, posted, at, midi, renderer, synth>>

Init ==
    /\ level = "RUNNING" /\ requested = FALSE /\ flag = FALSE /\ posted = FALSE
    /\ at = "opening"
    /\ driver = "none" /\ call = <<>> /\ alive = FALSE /\ closed = FALSE /\ events = <<>>
    /\ card = "closed" /\ wants = FALSE /\ bufferOpen = FALSE
    /\ synth = [n \in Notes |-> "none"] /\ held = {}

-----------------------------------------------------------------------------
\* The proactor's thread.
RequestStop ==
    /\ ~requested /\ requested' = TRUE
    /\ UNCHANGED <<level, flag, posted, at, midi, renderer, synth>>

HandleStopping ==
    /\ requested /\ level = "RUNNING"
    /\ level' = "STOPPING" /\ flag' = TRUE
    /\ UNCHANGED <<requested, posted, at, midi, renderer, synth>>

\* Join blocks until the thread has returned.
Join ==
    /\ posted /\ at = "ended" /\ posted' = FALSE
    /\ level' = "STOPPED"
    /\ UNCHANGED <<requested, flag, at, midi, renderer, synth>>

-----------------------------------------------------------------------------
\* The audio thread, up to its loop: there may be no keyboard to open, which is
\* no error.
OpenMidiIn ==
    /\ at = "opening" /\ at' = "starting"
    /\ alive' = TRUE /\ driver' \in {"none", "started"}
    /\ UNCHANGED <<proactor, posted, call, closed, events, held, renderer, synth>>

\* The thread asserts that the card can be opened.
OpenRenderer ==
    /\ at = "starting"
    /\ \/ card' = "open" /\ at' = "looping"
       \/ card' = card /\ at' = "failed"
    /\ UNCHANGED <<proactor, posted, midi, wants, bufferOpen, synth>>

Loop ==
    /\ at = "looping" /\ at' = IF flag THEN "closing" ELSE "waiting"
    /\ UNCHANGED <<proactor, posted, midi, renderer, synth>>

WaitForSingleObject ==
    /\ at = "waiting" /\ wants /\ wants' = FALSE /\ at' = "filling"
    /\ UNCHANGED <<proactor, posted, midi, card, bufferOpen, synth>>

\* Its error is not looked at.
OpenRenderBuffer ==
    /\ at = "filling" /\ at' = "playing"
    /\ bufferOpen' = (card = "open")
    /\ UNCHANGED <<proactor, posted, midi, card, wants, synth>>

\* The notes after the events in es, one after the other: a note is there from the
\* first that begins it, and fades from the first after that which releases it; one
\* that is there, fading or not, is not begun again.
Played(notes, es) ==
    [n \in Notes |->
        LET there == {i \in DOMAIN es : es[i] = <<"on", n>>} \cup (IF notes[n] = "none" THEN {} ELSE {0})
            released == \E i \in there, j \in DOMAIN es : i < j /\ es[j] = <<"off", n>>
        IN IF there = {} THEN "none"
           ELSE IF notes[n] = "fading" \/ released THEN "fading" ELSE "on"]

\* GetEvents takes all there are, ProcessEvents plays them, oldest first.
ProcessEvents ==
    /\ at = "playing" /\ at' = "generating"
    /\ synth' = Played(synth, events) /\ events' = <<>>
    /\ UNCHANGED <<proactor, posted, driver, call, alive, closed, held, renderer>>

\* Notes that fade may have faded by the end of the buffer.
GenerateStereoSamples ==
    /\ at = "generating" /\ at' = "completing"
    /\ \E over \in SUBSET {n \in Notes : synth[n] = "fading"} :
          /\ over = {} \/ bufferOpen
          /\ synth' = [n \in Notes |-> IF n \in over THEN "none" ELSE synth[n]]
    /\ UNCHANGED <<proactor, posted, midi, renderer>>

\* CompleteRenderBuffer asserts that there is a buffer.
CompleteRenderBuffer ==
    /\ at = "completing" /\ bufferOpen' = FALSE
    /\ at' = IF bufferOpen THEN "looping" ELSE "failed"
    /\ UNCHANGED <<proactor, posted, midi, card, wants, synth>>

CloseRenderer ==
    /\ at = "closing" /\ at' = "stopping"
    /\ card' = "closed" /\ wants' = FALSE /\ bufferOpen' = FALSE
    /\ UNCHANGED <<proactor, posted, midi, synth>>

\* ~Pimpl of MidiIn: midiInStop and midiInClose ...
CloseMidiIn ==
    /\ at = "stopping" /\ at' = "spinning"
    /\ driver' = IF driver = "started" THEN "stopped" ELSE driver
    /\ UNCHANGED <<proactor, posted, call, alive, closed, events, held, renderer, synth>>

\* Mutant: MidiInProc is not waited for.
DestroyMidiInAtOnce ==
    /\ at = "spinning" /\ at' = "posting"
    /\ alive' = FALSE /\ events' = <<>>
    /\ UNCHANGED <<proactor, posted, driver, call, closed, held, renderer, synth>>

\* ... and the loop until MidiInProc has been called for the close.
DestroyMidiIn ==
    /\ at = "spinning" /\ (driver = "none" \/ closed) /\ at' = "posting"
    /\ alive' = FALSE /\ events' = <<>>
    /\ UNCHANGED <<proactor, posted, driver, call, closed, held, renderer, synth>>

PostJoin ==
    /\ at = "posting" /\ at' = "ending" /\ posted' = TRUE
    /\ UNCHANGED <<proactor, midi, renderer, synth>>

End ==
    /\ at = "ending" /\ at' = "ended"
    /\ UNCHANGED <<proactor, posted, midi, renderer, synth>>

-----------------------------------------------------------------------------
\* The keyboard's driver.

\* A key is pressed or released; the driver's thread calls MidiInProc.
Press(n) ==
    /\ driver = "started" /\ call = <<>> /\ Len(events) < MaxEvents
    /\ call' = <<IF n \in held THEN <<"off", n>> ELSE <<"on", n>> >>
    /\ held' = IF n \in held THEN held \ {n} ELSE held \cup {n}
    /\ UNCHANGED <<proactor, posted, at, driver, alive, closed, events, renderer, synth>>

\* The driver calls MidiInProc for its close.
ReportClose ==
    /\ driver = "stopped" /\ call = <<>>
    /\ driver' = "closed" /\ call' = << <<"close">> >>
    /\ UNCHANGED <<proactor, posted, at, alive, closed, events, held, renderer, synth>>

MidiInProc ==
    /\ call # <<>> /\ call' = <<>>
    /\ IF call[1][1] = "close" THEN closed' = TRUE /\ UNCHANGED events
       ELSE events' = Append(events, call[1]) /\ UNCHANGED closed
    /\ UNCHANGED <<proactor, posted, at, driver, alive, held, renderer, synth>>

-----------------------------------------------------------------------------
\* The sound card.
WantSamples ==
    /\ card # "closed" /\ ~wants /\ wants' = TRUE
    /\ UNCHANGED <<proactor, posted, at, midi, card, bufferOpen, synth>>

Lose ==
    /\ card = "open" /\ card' = "lost"
    /\ UNCHANGED <<proactor, posted, at, midi, wants, bufferOpen, synth>>

Done == (level = "STOPPED" \/ at = "failed" \/ card = "lost") /\ UNCHANGED vars

ThreadStep ==
    \/ OpenMidiIn \/ OpenRenderer \/ Loop \/ WaitForSingleObject \/ OpenRenderBuffer
    \/ ProcessEvents \/ GenerateStereoSamples \/ CompleteRenderBuffer
    \/ CloseRenderer \/ CloseMidiIn \/ DestroyMidiIn \/ PostJoin \/ End

\* A failed assertion ends the process.
Next ==
    \/ /\ at # "failed"
       /\ \/ RequestStop \/ HandleStopping \/ Join \/ ThreadStep
          \/ \E n \in Notes : Press(n)
          \/ ReportClose \/ MidiInProc \/ WantSamples \/ Lose
    \/ Done

Spec == Init /\ [][Next]_vars

\* The three threads run, the driver closes, and a card that is not lost goes on
\* wanting samples.
FairSpec ==
    /\ Spec
    /\ WF_vars(HandleStopping) /\ WF_vars(Join) /\ WF_vars(ThreadStep)
    /\ WF_vars(ReportClose) /\ WF_vars(MidiInProc) /\ WF_vars(card = "open" /\ WantSamples)

-----------------------------------------------------------------------------
\* The variables have their types.
TypeOK ==
    /\ level \in {"RUNNING", "STOPPING", "STOPPED"}
    /\ requested \in BOOLEAN /\ flag \in BOOLEAN /\ posted \in BOOLEAN
    /\ at \in {"opening", "starting", "looping", "waiting", "filling", "playing", "generating",
               "completing", "closing", "stopping", "spinning", "posting", "ending", "ended", "failed"}
    /\ driver \in {"none", "started", "stopped", "closed"}
    /\ Len(call) <= 1 /\ alive \in BOOLEAN /\ closed \in BOOLEAN
    /\ \A i \in DOMAIN events : events[i] \in {"on", "off"} \X Notes
    /\ card \in {"closed", "open", "lost"} /\ wants \in BOOLEAN /\ bufferOpen \in BOOLEAN
    /\ synth \in [Notes -> {"none", "on", "fading"}] /\ held \subseteq Notes

\* MidiInProc never runs on a Pimpl that is gone, and a thread that has stopped,
\* whose object is destroyed with its service, has returned and left neither a
\* callback to come nor the card behind.
NothingOutlives ==
    /\ call # <<>> => alive
    /\ posted => level = "STOPPING"
    /\ level = "STOPPED" => at = "ended" /\ ~alive /\ card = "closed" /\ driver \in {"none", "closed"}

\* A note sounds on only while its key is down or its release is on its way to
\* the synth, whichever events the two threads hand over together.
NoStuckNote ==
    alive => \A n \in Notes :
        synth[n] = "on" => n \in held \/ <<"off", n>> \in ToSet(events \o call)

\* The three threads agree about what is there, and the keyboard and the synth
\* about what sounds.
Consistent == TypeOK /\ NothingOutlives /\ NoStuckNote

\* A thread that is told to stop is joined, unless the card cannot be opened or
\* is lost.
StopCompletes == requested ~> level = "STOPPED" \/ at = "failed" \/ card = "lost"
=============================================================================
