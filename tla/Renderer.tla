------------------------------ MODULE Renderer ------------------------------
(***************************************************************************)
(* The light show of CampLight.  The Renderer's timer gives a frame every  *)
(* period; in a frame the Sequence starts its next entry when the last has *)
(* had its time, and the TransitionPattern of each side renders: it shows  *)
(* its current pattern or, while it changes to the next, the transition,   *)
(* and keeps one more change pending.  Another sequence may be applied     *)
(* between any two frames.                                                 *)
(*                                                                         *)
(* Only differences of timestamps matter, so that the model keeps for each *)
(* how long ago it was, in periods.  The code's are of size_t: one that    *)
(* lies in the future, a negative age, would wrap around.                  *)
(***************************************************************************)
EXTENDS Integers, Sequences

CONSTANTS
    Names,          \* the sequences of the SequenceFactory
    Default,        \* the one it starts with
    Unknown,        \* any other name, which has no entries
    Entries,        \* the entries of each: top, main, transition and duration
    Patterns, Black,
    Transitions,    \* the transitions of the TransitionFactory
    Created,        \* what CreateTransition may return for a name: Random may be any
    Duration,       \* how long each takes
    Steps,          \* into how many steps it is divided
    Nothing,        \* no step, no index
    MaxAge          \* ages are not told apart above this bound

Step == [pattern : Patterns, transition : Transitions]
Entry == [top : Patterns, main : Patterns, transition : DOMAIN Created, duration : Nat]

ASSUME RendererAssumption ==
    /\ Default \in Names /\ Unknown \notin Names
    /\ Black \in Patterns
    /\ Duration \in [Transitions -> Nat] /\ Steps \in [Transitions -> Nat \ {0}]
    /\ Created \in [DOMAIN Created -> SUBSET Transitions]
    /\ Entries \in [Names -> Seq(Entry)] /\ \A n \in Names : Entries[n] # <<>>
    /\ Nothing \notin Step /\ Nothing \notin Nat /\ Nothing \notin Transitions
    \* All but Immediate, which no sequence uses, take more than one period.
    /\ \A n \in Names : \A i \in 1..Len(Entries[n]) :
          \A tr \in Created[Entries[n][i].transition] : Duration[tr] > 1
    /\ MaxAge \in Nat

Sides == {"top", "main"}

VARIABLES
    level,      \* the renderer's local run level
    sequence,   \* the sequence whose entries are in m_entries
    index,      \* m_opt_cur_index
    left,       \* the time until m_next_start_timestamp
    side,       \* the TransitionPattern of each side
    shown       \* what each side has rendered last

vars == <<level, sequence, index, left, side, shown>>

\* What a side shows: how many steps of a transition, or all of a pattern.
Full(p) == [from |-> p, to |-> p, transition |-> Nothing, step |-> 0]

EntriesOf(n) == IF n = Unknown THEN <<>> ELSE Entries[n]

Init ==
    /\ level = "CONSTRUCTED" /\ sequence = Unknown /\ index = Nothing /\ left = 0
    /\ side = [s \in Sides |->
                  [current |-> Black, next |-> Nothing, pending |-> Nothing,
                   currentAge |-> 0, nextAge |-> 0, lastAge |-> 0]]
    /\ shown = [s \in Sides |-> Full(Black)]

-----------------------------------------------------------------------------
\* Mutant: a change during a transition replaces the one that is under way.
ChangeToAtOnce(t, p, tr) ==
    [t EXCEPT !.next = [pattern |-> p, transition |-> tr], !.nextAge = t.lastAge]

\* TransitionPattern::ChangeTo
ChangeTo(t, p, tr) ==
    IF t.next = Nothing
    THEN [t EXCEPT !.next = [pattern |-> p, transition |-> tr], !.nextAge = t.lastAge]
    ELSE [t EXCEPT !.pending = [pattern |-> p, transition |-> tr]]

\* Mutant: the pending change is left behind.
CompletedAlone(t) ==
    [t EXCEPT !.current = t.next.pattern, !.currentAge = t.nextAge,
              !.next = Nothing, !.nextAge = 0, !.pending = Nothing]

\* The next becomes the current, and the pending, if any, becomes the next.
Completed(t) ==
    [t EXCEPT !.current = t.next.pattern, !.currentAge = t.nextAge,
              !.next = t.pending, !.nextAge = 0, !.pending = Nothing]

\* RenderTransition of LinearFade, RandomDither, Swipe and Immediate.
Complete(t) == t.nextAge >= Duration[t.next.transition]
Image(t) ==
    IF t.next = Nothing THEN Full(t.current)
    ELSE IF Complete(t) THEN Full(t.next.pattern)
    ELSE [from |-> t.current, to |-> t.next.pattern, transition |-> t.next.transition,
          step |-> (t.nextAge * Steps[t.next.transition]) \div Duration[t.next.transition]]

\* Mutant: the transition starts again with every frame.
RenderedRestarted(t) ==
    [(IF t.next # Nothing /\ Complete(t) THEN Completed(t) ELSE t) EXCEPT !.lastAge = 0, !.nextAge = 0]

\* TransitionPattern::RenderTo, but for the image.
Rendered(t) ==
    [(IF t.next # Nothing /\ Complete(t) THEN Completed(t) ELSE t) EXCEPT !.lastAge = 0]

\* The sides once a period has passed.
Capped(a) == IF a < MaxAge THEN a + 1 ELSE a
Older(t) ==
    [t EXCEPT !.currentAge = Capped(@), !.lastAge = Capped(@),
              !.nextAge = IF t.next = Nothing THEN @ ELSE Capped(@)]

-----------------------------------------------------------------------------
\* Both sides render.
RenderSides(f) ==
    /\ side' = [s \in Sides |-> Rendered(f[s])]
    /\ shown' = [s \in Sides |-> Image(f[s])]

\* Sequence::RenderTo starts an entry of sequence q, each side with what its
\* factory returns for the name of the transition.
StartEntry(q, i, f) ==
    LET entry == EntriesOf(q)[i + 1]
    IN  /\ index' = i /\ left' = entry.duration
        /\ \E top, main \in Created[entry.transition] :
              RenderSides([f EXCEPT !["top"] = ChangeTo(@, entry.top, top),
                                    !["main"] = ChangeTo(@, entry.main, main)])

\* Sequence::RenderTo with entries of q, index i, the sides f, and l time left.
RenderTo(q, i, l, f) ==
    IF i = Nothing /\ EntriesOf(q) # <<>> THEN StartEntry(q, 0, f)
    ELSE IF i # Nothing /\ l <= 0
    THEN StartEntry(q, IF i + 1 >= Len(EntriesOf(q)) THEN 0 ELSE i + 1, f)
    ELSE index' = i /\ left' = l /\ RenderSides(f)

HandleStarting ==
    /\ level = "CONSTRUCTED" /\ level' = "RUNNING"
    /\ sequence' = Default
    /\ RenderTo(Default, Nothing, 0, side)

\* Renderer::HandleTimeout
HandleTimeout ==
    /\ level = "RUNNING"
    /\ RenderTo(sequence, index, IF index = Nothing THEN left ELSE left - 1,
                [s \in Sides |-> Older(side[s])])
    /\ UNCHANGED <<level, sequence>>

\* Renderer::ChangeToSequence, of any name.
ChangeToSequence(n) ==
    /\ level = "RUNNING"
    /\ sequence' = n /\ index' = Nothing
    /\ UNCHANGED <<level, left, side, shown>>

\* TransitionPattern::ChangeToImmediate, to black.
ChangeToBlack(t) ==
    [t EXCEPT !.current = Black, !.currentAge = t.lastAge, !.next = Nothing, !.pending = Nothing]

\* The timer is cancelled and the last frame is black.
HandleStopping ==
    /\ level = "RUNNING" /\ level' = "STOPPED"
    /\ sequence' = Unknown
    /\ RenderTo(Unknown, Nothing, left, [s \in Sides |-> ChangeToBlack(side[s])])

-----------------------------------------------------------------------------
Next ==
    \/ HandleStarting \/ HandleTimeout \/ HandleStopping
    \/ \E n \in Names \cup {Unknown} : ChangeToSequence(n)
    \/ level = "STOPPED" /\ UNCHANGED vars

Spec == Init /\ [][Next]_vars

\* The renderer is started, and its timer goes on.
FairSpec == Spec /\ WF_vars(HandleStarting) /\ WF_vars(HandleTimeout)

-----------------------------------------------------------------------------
Side == [current : Patterns, next : Step \cup {Nothing}, pending : Step \cup {Nothing},
         currentAge : Int, nextAge : Int, lastAge : Int]
Shown == [from : Patterns, to : Patterns, transition : Transitions \cup {Nothing}, step : Int]

\* The variables have their types.
TypeOK ==
    /\ level \in {"CONSTRUCTED", "RUNNING", "STOPPED"}
    /\ sequence \in Names \cup {Unknown}
    /\ index = Nothing \/ index \in 0..(Len(EntriesOf(sequence)) - 1)
    /\ left \in Int
    /\ side \in [Sides -> Side] /\ shown \in [Sides -> Shown]

\* What a side goes to: its latest change.
Target(t) ==
    IF t.pending # Nothing THEN t.pending.pattern
    ELSE IF t.next # Nothing THEN t.next.pattern ELSE t.current

Ordered(t) ==
    /\ 0 <= t.lastAge /\ t.lastAge <= t.currentAge
    /\ t.next # Nothing => 0 <= t.nextAge /\ t.nextAge <= t.currentAge
    /\ t.pending # Nothing => t.next # Nothing

\* No timestamp that is subtracted lies in the future, and a change is pending
\* only behind another.
TimesOrdered == \A s \in Sides : Ordered(side[s])

GoesTo(f, entry) == Target(f["top"]) = entry.top /\ Target(f["main"]) = entry.main

\* Whatever changes came during transitions, each side is on its way to the
\* pattern of the sequence's entry: no change but those that a later one
\* replaces is lost.
OnTheWay == index # Nothing => GoesTo(side, EntriesOf(sequence)[index + 1])

\* A renderer that has stopped has left the lights black.
DarkAtStop == level = "STOPPED" => \A s \in Sides : shown[s] = Full(Black)

Consistent == TypeOK /\ TimesOrdered /\ OnTheWay /\ DarkAtStop

\* While it runs, what a side shows never jumps: a transition begins where the
\* lights were and goes on, without a step back, until it is complete.
Goes(old, new) ==
    \/ new.transition # Nothing /\ new.from = old.from /\ new.to = old.to
          /\ new.transition = old.transition /\ new.step >= old.step
    \/ new.transition # Nothing /\ old.transition = Nothing /\ new.from = old.to
    \/ new.transition = Nothing /\ new.from = old.to

Smooth ==
    [][level = "RUNNING" /\ level' = "RUNNING" =>
          \A s \in Sides : shown'[s] = shown[s] \/ Goes(shown[s], shown'[s])]_vars

\* Once a sequence of one entry is left alone, it is all that is shown.
Settles ==
    \A n \in {m \in Names : Len(Entries[m]) = 1} :
        <>[](level = "RUNNING" /\ sequence = n)
            => <>[](/\ {shown["top"].from, shown["top"].to} = {Entries[n][1].top}
                    /\ {shown["main"].from, shown["main"].to} = {Entries[n][1].main})
=============================================================================
