--------------------------- MODULE RendererProofs ---------------------------
(***************************************************************************)
(* Proofs about Renderer, for any sequences, patterns and transitions of   *)
(* any length.  Consistent is inductive.  That no frame jumps needs more:  *)
(* what was shown last is what the sides stand for, and no change is seen  *)
(* complete in the first frame that shows it.                              *)
(***************************************************************************)
EXTENDS Renderer, TLAPS

\* A change of a side.
LEMMA Changing ==
  ASSUME NEW t \in Side, Ordered(t), NEW p \in Patterns, NEW tr \in Transitions
  PROVE  /\ ChangeTo(t, p, tr) \in Side /\ Ordered(ChangeTo(t, p, tr))
         /\ Target(ChangeTo(t, p, tr)) = p
<1> USE RendererAssumption DEF RendererAssumption, Side, Step, Ordered, Target
<1> DEFINE change == [pattern |-> p, transition |-> tr]
<1>1. change \in Step /\ change # Nothing /\ change.pattern = p
  OBVIOUS
<1>2. CASE t.next = Nothing
  <2>1. ChangeTo(t, p, tr) = [t EXCEPT !.next = change, !.nextAge = t.lastAge]
    BY <1>2 DEF ChangeTo
  <2>2. t.pending = Nothing
    BY <1>2
  <2> QED BY <1>1, <2>1, <2>2
<1>3. CASE t.next # Nothing
  <2>1. ChangeTo(t, p, tr) = [t EXCEPT !.pending = change]
    BY <1>3 DEF ChangeTo
  <2> QED BY <1>1, <1>3, <2>1
<1> QED BY <1>2, <1>3

\* Rendering a side.
LEMMA Rendering ==
  ASSUME NEW t \in Side, Ordered(t)
  PROVE  /\ Rendered(t) \in Side /\ Ordered(Rendered(t)) /\ Target(Rendered(t)) = Target(t)
         /\ Image(t) \in Shown
<1> USE RendererAssumption DEF RendererAssumption, Side, Step, Ordered, Target
<1>1. CASE t.next # Nothing /\ Complete(t)
  <2>1. Rendered(t) = [t EXCEPT !.current = t.next.pattern, !.currentAge = t.nextAge,
                                !.next = t.pending, !.nextAge = 0, !.pending = Nothing, !.lastAge = 0]
    BY <1>1 DEF Rendered, Completed
  <2>2. Image(t) = Full(t.next.pattern) /\ t.next \in Step
    BY <1>1 DEF Image
  <2>3. Image(t) \in Shown
    BY <2>2 DEF Full, Shown
  <2> DEFINE r == Rendered(t)
  <2>4. /\ r.current = t.next.pattern /\ r.next = t.pending /\ r.pending = Nothing
        /\ r.currentAge = t.nextAge /\ r.nextAge = 0 /\ r.lastAge = 0
    BY <2>1
  <2>5. r \in Side
    <3>1. t.next.pattern \in Patterns /\ t.pending \in Step \cup {Nothing} /\ t.nextAge \in Int
      BY <2>2
    <3>2. r = [current |-> t.next.pattern, next |-> t.pending, pending |-> Nothing,
               currentAge |-> t.nextAge, nextAge |-> 0, lastAge |-> 0]
      BY <2>1
    <3> QED BY <3>1, <3>2
  <2>6. Ordered(r)
    BY <1>1, <2>4
  <2>7. Target(r) = Target(t)
    BY <1>1, <2>4
  <2> QED BY <2>3, <2>5, <2>6, <2>7
<1>2. CASE ~(t.next # Nothing /\ Complete(t))
  <2>1. Rendered(t) = [t EXCEPT !.lastAge = 0]
    BY <1>2 DEF Rendered
  <2>2. Rendered(t) \in Side /\ Ordered(Rendered(t)) /\ Target(Rendered(t)) = Target(t)
    <3> DEFINE r == Rendered(t)
    <3>1. /\ r.current = t.current /\ r.next = t.next /\ r.pending = t.pending
          /\ r.currentAge = t.currentAge /\ r.nextAge = t.nextAge /\ r.lastAge = 0
      BY <2>1
    <3>2. r \in Side
      <4>1. r = [current |-> t.current, next |-> t.next, pending |-> t.pending,
                 currentAge |-> t.currentAge, nextAge |-> t.nextAge, lastAge |-> 0]
        BY <2>1
      <4> QED BY <4>1
    <3>3. Ordered(r)
      BY <3>1
    <3>4. Target(r) = Target(t)
      BY <3>1
    <3> QED BY <3>2, <3>3, <3>4
  <2>3. CASE t.next = Nothing
    BY <2>3, <2>2 DEF Image, Full, Shown
  <2>4. CASE t.next # Nothing
    <3> DEFINE duration == Duration[t.next.transition]
               steps == Steps[t.next.transition]
    <3>1. duration \in Nat /\ steps \in Nat /\ t.nextAge \in Nat /\ t.nextAge < duration
      BY <1>2, <2>4 DEF Complete
    <3>2. Image(t) = [from |-> t.current, to |-> t.next.pattern, transition |-> t.next.transition,
                      step |-> (t.nextAge * steps) \div duration]
      BY <1>2, <2>4 DEF Image
    <3> HIDE DEF duration, steps
    <3>3. t.nextAge * steps \in Nat
      BY <3>1
    <3>4. (t.nextAge * steps) \div duration \in Int
      BY <3>1, <3>3
    <3> QED BY <2>2, <2>4, <3>2, <3>4 DEF Shown
  <2> QED BY <2>2, <2>3, <2>4
<1> QED BY <1>1, <1>2

\* A period that passes.
LEMMA Aging ==
  ASSUME NEW t \in Side, Ordered(t)
  PROVE  Older(t) \in Side /\ Ordered(Older(t)) /\ Target(Older(t)) = Target(t)
<1> USE RendererAssumption DEF RendererAssumption, Side, Ordered, Target
<1> DEFINE r == Older(t)
<1>1. \A a, b \in Int : /\ Capped(a) \in Int /\ (a >= 0 => Capped(a) >= 0)
                        /\ a <= b => Capped(a) <= Capped(b)
  BY DEF Capped
<1>2. /\ r.current = t.current /\ r.next = t.next /\ r.pending = t.pending
      /\ r.currentAge = Capped(t.currentAge) /\ r.lastAge = Capped(t.lastAge)
      /\ r.nextAge = IF t.next = Nothing THEN t.nextAge ELSE Capped(t.nextAge)
  BY DEF Older
<1>3. r \in Side
  BY <1>1 DEF Older
<1>4. Ordered(r)
  BY <1>1, <1>2
<1>5. Target(r) = Target(t)
  BY <1>2
<1> QED BY <1>3, <1>4, <1>5

\* A change to black without a transition.
LEMMA Blackening ==
  ASSUME NEW t \in Side, Ordered(t)
  PROVE  ChangeToBlack(t) \in Side /\ Ordered(ChangeToBlack(t))
         /\ Image(ChangeToBlack(t)) = Full(Black)
<1> USE RendererAssumption DEF RendererAssumption, Side, Ordered
<1> DEFINE r == ChangeToBlack(t)
<1>1. /\ r.current = Black /\ r.next = Nothing /\ r.pending = Nothing
      /\ r.currentAge = t.lastAge /\ r.nextAge = t.nextAge /\ r.lastAge = t.lastAge
  BY DEF ChangeToBlack
<1>2. r \in Side
  BY DEF ChangeToBlack
<1>3. Ordered(r)
  BY <1>1
<1> QED BY <1>1, <1>2, <1>3 DEF Image

\* Rendering both sides.
LEMMA SidesRendered ==
  ASSUME NEW f \in [Sides -> Side], \A s \in Sides : Ordered(f[s]), RenderSides(f)
  PROVE  /\ side' \in [Sides -> Side] /\ shown' \in [Sides -> Shown] /\ TimesOrdered'
         /\ \A s \in Sides : Target(side'[s]) = Target(f[s])
<1>1. \A s \in Sides :
        /\ Rendered(f[s]) \in Side /\ Ordered(Rendered(f[s])) /\ Target(Rendered(f[s])) = Target(f[s])
        /\ Image(f[s]) \in Shown
  BY Rendering
<1> QED BY <1>1 DEF RenderSides, TimesOrdered

-----------------------------------------------------------------------------
\* A frame in which an entry starts: the sides are on their way to it.
LEMMA EntryStarted ==
  ASSUME NEW q \in Names \cup {Unknown}, NEW i \in 0..(Len(EntriesOf(q)) - 1),
         NEW f \in [Sides -> Side], \A s \in Sides : Ordered(f[s]),
         StartEntry(q, i, f)
  PROVE  /\ index' = i /\ left' \in Int
         /\ side' \in [Sides -> Side] /\ shown' \in [Sides -> Shown] /\ TimesOrdered'
         /\ GoesTo(side, EntriesOf(q)[index + 1])'
<1> USE RendererAssumption DEF RendererAssumption
<1> DEFINE entry == EntriesOf(q)[i + 1]
<1>1. q \in Names /\ entry \in Entry
  BY DEF EntriesOf
<1>2. index' = i /\ left' = entry.duration
  BY DEF StartEntry
<1>3. entry.top \in Patterns /\ entry.main \in Patterns /\ entry.duration \in Int
         /\ Created[entry.transition] \subseteq Transitions
  BY <1>1 DEF Entry
<1>4. PICK top \in Created[entry.transition], main \in Created[entry.transition] :
        RenderSides([f EXCEPT !["top"] = ChangeTo(@, entry.top, top),
                              !["main"] = ChangeTo(@, entry.main, main)])
  BY DEF StartEntry
<1> HIDE DEF entry
<1> DEFINE g == [f EXCEPT !["top"] = ChangeTo(@, entry.top, top),
                          !["main"] = ChangeTo(@, entry.main, main)]
<1>5. f["top"] \in Side /\ f["main"] \in Side /\ Ordered(f["top"]) /\ Ordered(f["main"])
  BY DEF Sides
<1>6. /\ ChangeTo(f["top"], entry.top, top) \in Side /\ Ordered(ChangeTo(f["top"], entry.top, top))
      /\ Target(ChangeTo(f["top"], entry.top, top)) = entry.top
  BY <1>3, <1>4, <1>5, Changing
<1>7. /\ ChangeTo(f["main"], entry.main, main) \in Side /\ Ordered(ChangeTo(f["main"], entry.main, main))
      /\ Target(ChangeTo(f["main"], entry.main, main)) = entry.main
  BY <1>3, <1>4, <1>5, Changing
<1>8. g["top"] = ChangeTo(f["top"], entry.top, top) /\ g["main"] = ChangeTo(f["main"], entry.main, main)
         /\ g \in [Sides -> Side] /\ \A s \in Sides : Ordered(g[s])
  BY <1>6, <1>7 DEF Sides
<1>9. RenderSides(g)
  BY <1>4
<1> HIDE DEF g
<1>10. /\ side' \in [Sides -> Side] /\ shown' \in [Sides -> Shown] /\ TimesOrdered'
       /\ \A s \in Sides : Target(side'[s]) = Target(g[s])
  BY <1>8, <1>9, SidesRendered
<1>11. GoesTo(side, EntriesOf(q)[index + 1])'
  BY <1>2, <1>6, <1>7, <1>8, <1>10 DEF GoesTo, Sides, entry
<1> QED BY <1>2, <1>3, <1>10, <1>11

\* Any frame.
LEMMA Frame ==
  ASSUME NEW q \in Names \cup {Unknown}, NEW i, NEW l \in Int,
         i = Nothing \/ i \in 0..(Len(EntriesOf(q)) - 1),
         NEW f \in [Sides -> Side], \A s \in Sides : Ordered(f[s]),
         i # Nothing => GoesTo(f, EntriesOf(q)[i + 1]),
         RenderTo(q, i, l, f)
  PROVE  /\ index' = Nothing \/ index' \in 0..(Len(EntriesOf(q)) - 1)
         /\ left' \in Int
         /\ side' \in [Sides -> Side] /\ shown' \in [Sides -> Shown] /\ TimesOrdered'
         /\ index' # Nothing => GoesTo(side, EntriesOf(q)[index + 1])'
<1> USE RendererAssumption DEF RendererAssumption
<1>1. EntriesOf(q) \in Seq(Entry)
  BY DEF EntriesOf
<1>2. CASE i = Nothing /\ EntriesOf(q) # <<>>
  <2>1. 0 \in 0..(Len(EntriesOf(q)) - 1) /\ StartEntry(q, 0, f)
    BY <1>1, <1>2 DEF RenderTo
  <2> QED BY <2>1, EntryStarted
<1>3. CASE i # Nothing /\ l <= 0
  <2> DEFINE j == IF i + 1 >= Len(EntriesOf(q)) THEN 0 ELSE i + 1
  <2>1. j \in 0..(Len(EntriesOf(q)) - 1)
    BY <1>1, <1>3
  <2>2. StartEntry(q, j, f)
    BY <1>3 DEF RenderTo
  <2> HIDE DEF j
  <2> QED BY <2>1, <2>2, EntryStarted
<1>4. CASE ~(i = Nothing /\ EntriesOf(q) # <<>>) /\ ~(i # Nothing /\ l <= 0)
  <2>1. index' = i /\ left' = l /\ RenderSides(f)
    BY <1>4 DEF RenderTo
  <2>2. /\ side' \in [Sides -> Side] /\ shown' \in [Sides -> Shown] /\ TimesOrdered'
        /\ \A s \in Sides : Target(side'[s]) = Target(f[s])
    BY <2>1, SidesRendered
  <2>3. index' # Nothing => GoesTo(side, EntriesOf(q)[index + 1])'
    BY <2>1, <2>2 DEF GoesTo, Sides
  <2> QED BY <2>1, <2>2, <2>3
<1> QED BY <1>2, <1>3, <1>4

\* The initial state is consistent.
LEMMA InitConsistent == Init => Consistent
<1> SUFFICES ASSUME Init PROVE Consistent
  OBVIOUS
<1> USE RendererAssumption DEF RendererAssumption, Init
<1>1. side \in [Sides -> Side]
  BY DEF Side
<1>2. shown \in [Sides -> Shown]
  BY DEF Full, Shown
<1>3. TypeOK
  BY <1>1, <1>2 DEF TypeOK
<1>4. TimesOrdered
  BY DEF TimesOrdered, Ordered
<1> QED BY <1>3, <1>4 DEF Consistent, OnTheWay, DarkAtStop

\* Every step keeps the renderer consistent.
LEMMA NextConsistent == Consistent /\ [Next]_vars => Consistent'
<1> SUFFICES ASSUME Consistent, [Next]_vars PROVE Consistent'
  OBVIOUS
<1> USE RendererAssumption DEF RendererAssumption, Consistent
<1>1. /\ sequence \in Names \cup {Unknown} /\ left \in Int
      /\ index = Nothing \/ index \in 0..(Len(EntriesOf(sequence)) - 1)
      /\ side \in [Sides -> Side] /\ shown \in [Sides -> Shown]
      /\ \A s \in Sides : Ordered(side[s])
  BY DEF TypeOK, TimesOrdered
<1>2. CASE HandleStarting
  <2> DEFINE l == 0
  <2>1. level' = "RUNNING" /\ sequence' = Default /\ RenderTo(Default, Nothing, l, side)
    BY <1>2 DEF HandleStarting
  <2>2. Default \in Names \cup {Unknown} /\ l \in Int
    OBVIOUS
  <2> HIDE DEF l
  <2>3. /\ index' = Nothing \/ index' \in 0..(Len(EntriesOf(Default)) - 1)
        /\ left' \in Int
        /\ side' \in [Sides -> Side] /\ shown' \in [Sides -> Shown] /\ TimesOrdered'
        /\ index' # Nothing => GoesTo(side, EntriesOf(Default)[index + 1])'
    BY <1>1, <2>1, <2>2, Frame
  <2> QED BY <2>1, <2>3 DEF TypeOK, OnTheWay, DarkAtStop
<1>3. CASE HandleTimeout
  <2> DEFINE f == [s \in Sides |-> Older(side[s])]
             l == IF index = Nothing THEN left ELSE left - 1
  <2>1. level' = "RUNNING" /\ sequence' = sequence /\ RenderTo(sequence, index, l, f)
    BY <1>3 DEF HandleTimeout
  <2>2. \A s \in Sides : f[s] \in Side /\ Ordered(f[s]) /\ Target(f[s]) = Target(side[s])
    BY <1>1, Aging
  <2>3. f \in [Sides -> Side] /\ l \in Int
    BY <1>1, <2>2
  <2>4. index # Nothing => GoesTo(f, EntriesOf(sequence)[index + 1])
    BY <2>2 DEF OnTheWay, GoesTo, Sides
  <2> HIDE DEF f, l
  <2>5. /\ index' = Nothing \/ index' \in 0..(Len(EntriesOf(sequence)) - 1)
        /\ left' \in Int
        /\ side' \in [Sides -> Side] /\ shown' \in [Sides -> Shown] /\ TimesOrdered'
        /\ index' # Nothing => GoesTo(side, EntriesOf(sequence)[index + 1])'
    BY <1>1, <2>1, <2>2, <2>3, <2>4, Frame
  <2> QED BY <1>1, <2>1, <2>5 DEF TypeOK, OnTheWay, DarkAtStop
<1>4. CASE HandleStopping
  <2> DEFINE f == [s \in Sides |-> ChangeToBlack(side[s])]
  <2>1. level' = "STOPPED" /\ sequence' = Unknown /\ RenderTo(Unknown, Nothing, left, f)
    BY <1>4 DEF HandleStopping
  <2>2. \A s \in Sides : f[s] \in Side /\ Ordered(f[s]) /\ Image(f[s]) = Full(Black)
    BY <1>1, Blackening
  <2>3. f \in [Sides -> Side]
    BY <2>2
  <2>4. EntriesOf(Unknown) = <<>>
    BY DEF EntriesOf
  <2>5. \A s \in Sides : shown'[s] = Full(Black)
    BY <2>1, <2>2, <2>4 DEF RenderTo, RenderSides
  <2> HIDE DEF f
  <2>6. /\ index' = Nothing \/ index' \in 0..(Len(EntriesOf(Unknown)) - 1)
        /\ left' \in Int
        /\ side' \in [Sides -> Side] /\ shown' \in [Sides -> Shown] /\ TimesOrdered'
        /\ index' # Nothing => GoesTo(side, EntriesOf(Unknown)[index + 1])'
    BY <1>1, <2>1, <2>2, <2>3, Frame
  <2> QED BY <2>1, <2>5, <2>6 DEF TypeOK, OnTheWay, DarkAtStop
<1>5. ASSUME NEW n \in Names \cup {Unknown}, ChangeToSequence(n) PROVE Consistent'
  <2>1. sequence' = n /\ index' = Nothing /\ level = "RUNNING" /\ UNCHANGED <<level, left, side, shown>>
    BY <1>5 DEF ChangeToSequence
  <2> QED BY <1>1, <2>1 DEF TypeOK, TimesOrdered, OnTheWay, DarkAtStop
<1>6. CASE UNCHANGED vars
  BY <1>6 DEF vars, TypeOK, TimesOrdered, OnTheWay, DarkAtStop
<1> QED BY <1>2, <1>3, <1>4, <1>5, <1>6 DEF Next

\* No age is negative in any frame (RelativeToStart), each side is on its way
\* to the entry of the sequence, and a renderer that has stopped is black.
THEOREM StaysConsistent == Spec => []Consistent
  BY InitConsistent, NextConsistent, PTL DEF Spec

-----------------------------------------------------------------------------
\* The transitions that take more than one period, and a side whose changes
\* all have one.
Gradual == {tr \in Transitions : Duration[tr] > 1}
Gentle(t) ==
    /\ t.next # Nothing => t.next.transition \in Gradual
    /\ t.pending # Nothing => t.pending.transition \in Gradual

\* What a side has shown in the frame that has just been rendered: its pattern,
\* with a next one that is yet to begin, or the transition that is under way.
Seen(t, v) ==
    /\ t.lastAge = 0
    /\ \/ v = Full(t.current) /\ (t.next # Nothing => t.nextAge = 0)
       \/ t.next # Nothing /\ ~Complete(t) /\ v = Image(t)

\* The invariant behind Smooth.
AsSeen == \A s \in Sides : Gentle(side[s]) /\ Seen(side[s], shown[s])

\* A transition is no further in an earlier frame.
LEMMA StepsGrow ==
  ASSUME NEW a \in Nat, NEW b \in Nat, a <= b, NEW n \in Nat, NEW d \in Nat \ {0}
  PROVE  (a * n) \div d <= (b * n) \div d
<1> DEFINE x == a * n
           y == b * n
<1>1. x \in Nat /\ y \in Nat /\ x <= y
  <2>1. b - a \in Nat /\ (b - a) * n \in Nat /\ b * n = a * n + (b - a) * n
    OBVIOUS
  <2> QED BY <2>1
<1> HIDE DEF x, y
<1> DEFINE p == x \div d
           q == y \div d
<1>2. p \in Int /\ q \in Int
  BY <1>1
<1>3. d * p <= x /\ y < d * (q + 1)
  <2>1. \A z \in Nat : d * (z \div d) <= z /\ z < d * (z \div d) + d
    OBVIOUS
  <2>2. d * (q + 1) = d * q + d
    BY <1>2
  <2> QED BY <1>1, <2>1, <2>2
<1> HIDE DEF p, q
<1>4. ~(p >= q + 1)
  <2> SUFFICES ASSUME p >= q + 1 PROVE FALSE
    OBVIOUS
  <2>1. p - (q + 1) \in Nat /\ d * (p - (q + 1)) \in Nat
    BY <1>2
  <2>2. d * p = d * (q + 1) + d * (p - (q + 1))
    BY <1>2
  <2>3. d * p \in Int /\ d * (q + 1) \in Int
    BY <1>2
  <2> QED BY <1>1, <1>3, <2>1, <2>2, <2>3
<1> QED BY <1>2, <1>4 DEF p, q, x, y

\* A side that has been rendered has been seen.
LEMMA RenderingSeen ==
  ASSUME NEW t \in Side, Gentle(t)
  PROVE  Gentle(Rendered(t)) /\ Seen(Rendered(t), Image(t))
<1> DEFINE r == Rendered(t)
<1>1. CASE t.next # Nothing /\ Complete(t)
  <2>1. r = [t EXCEPT !.current = t.next.pattern, !.currentAge = t.nextAge,
                      !.next = t.pending, !.nextAge = 0, !.pending = Nothing, !.lastAge = 0]
    BY <1>1 DEF Rendered, Completed
  <2>2. r.current = t.next.pattern /\ r.next = t.pending /\ r.pending = Nothing /\ r.nextAge = 0 /\ r.lastAge = 0
    BY <2>1 DEF Side
  <2>3. Image(t) = Full(r.current)
    BY <1>1, <2>2 DEF Image
  <2> HIDE DEF r
  <2>4. Gentle(r) /\ Seen(r, Image(t))
    BY <2>2, <2>3 DEF Gentle, Seen
  <2> QED BY <2>4 DEF r
<1>2. CASE ~(t.next # Nothing /\ Complete(t))
  <2>1. r = [t EXCEPT !.lastAge = 0]
    BY <1>2 DEF Rendered
  <2>2. /\ r.current = t.current /\ r.next = t.next /\ r.pending = t.pending
        /\ r.nextAge = t.nextAge /\ r.lastAge = 0
    BY <2>1 DEF Side
  <2> HIDE DEF r
  <2>3. Gentle(r) /\ Complete(r) = Complete(t) /\ Image(r) = Image(t)
    BY <2>2 DEF Gentle, Complete, Image
  <2>4. t.next = Nothing => Image(t) = Full(r.current)
    BY <2>2 DEF Image
  <2>5. Seen(r, Image(t))
    BY <1>2, <2>2, <2>3, <2>4 DEF Seen
  <2> QED BY <2>3, <2>5 DEF r
<1> QED BY <1>1, <1>2

\* A period later, what a side shows is what it showed, or goes on from there.
LEMMA OlderGoes ==
  ASSUME NEW t \in Side, Ordered(t), Gentle(t), NEW v, Seen(t, v),
         NEW f, f = Older(t) \/ \E p \in Patterns, tr \in Gradual : f = ChangeTo(Older(t), p, tr)
  PROVE  f \in Side /\ Gentle(f) /\ (Image(f) = v \/ Goes(v, Image(f)))
<1> DEFINE o == Older(t)
<1>1. /\ o.current = t.current /\ o.next = t.next /\ o.pending = t.pending
      /\ o.lastAge = Capped(t.lastAge)
      /\ o.nextAge = IF t.next = Nothing THEN t.nextAge ELSE Capped(t.nextAge)
  BY DEF Older, Side
<1>2. \A a \in Nat : Capped(a) \in Nat /\ a <= Capped(a) /\ Capped(a) <= a + 1
  BY RendererAssumption DEF RendererAssumption, Capped
<1>3. o \in Side /\ Ordered(o) /\ Gentle(o)
  BY <1>1, Aging DEF Gentle
<1> HIDE DEF o
\* Whether the side changes or not, it has the same transition, or a new one
\* after none, which it has had for a period at most.
<1>4. /\ f \in Side /\ Gentle(f) /\ f.current = t.current
      /\ \/ f.next = t.next /\ f.nextAge = o.nextAge
         \/ t.next = Nothing /\ f.next # Nothing /\ f.nextAge = o.lastAge
  <2>1. CASE f = o
    BY <1>1, <1>3, <2>1
  <2>2. CASE f # o
    <3>1. PICK p \in Patterns, tr \in Gradual : f = ChangeTo(o, p, tr)
      BY <2>2 DEF o
    <3> DEFINE change == [pattern |-> p, transition |-> tr]
    <3>2. tr \in Transitions /\ change \in Step /\ change # Nothing /\ change.transition \in Gradual
      BY RendererAssumption DEF RendererAssumption, Step, Gradual
    <3>3. f \in Side
      BY <1>3, <3>1, <3>2, Changing
    <3>4. CASE o.next = Nothing
      <4>1. f = [o EXCEPT !.next = change, !.nextAge = o.lastAge]
        BY <3>1, <3>4 DEF ChangeTo
      <4>2. f.current = o.current /\ f.next = change /\ f.pending = o.pending /\ f.nextAge = o.lastAge
        BY <1>3, <4>1 DEF Side
      <4> HIDE DEF change
      <4> QED BY <1>1, <1>3, <3>2, <3>3, <3>4, <4>2 DEF Gentle
    <3>5. CASE o.next # Nothing
      <4>1. f = [o EXCEPT !.pending = change]
        BY <3>1, <3>5 DEF ChangeTo
      <4>2. f.current = o.current /\ f.next = o.next /\ f.pending = change /\ f.nextAge = o.nextAge
        BY <1>3, <4>1 DEF Side
      <4> HIDE DEF change
      <4> QED BY <1>1, <1>3, <3>2, <3>3, <3>5, <4>2 DEF Gentle
    <3> QED BY <3>4, <3>5
  <2> QED BY <2>1, <2>2
<1>5. f.next # Nothing => f.next \in Step /\ f.next.transition \in Gradual /\ f.next.transition \in Transitions
  BY <1>4 DEF Side, Gentle, Gradual
<1>6. \A tr \in Transitions : Duration[tr] \in Nat /\ Steps[tr] \in Nat /\ tr # Nothing
  BY RendererAssumption DEF RendererAssumption
\* Nothing happens,
<1>7. CASE f.next = Nothing
  <2>1. t.next = Nothing
    BY <1>4, <1>7
  <2> QED BY <1>4, <1>7, <2>1 DEF Seen, Image
\* a transition begins,
<1>8. CASE f.next # Nothing /\ v = Full(t.current) /\ f.nextAge \in {0, 1}
  <2>1. ~Complete(f)
    BY <1>5, <1>6, <1>8 DEF Complete, Gradual
  <2>2. Image(f).from = t.current /\ Image(f).transition = f.next.transition
    BY <1>4, <1>8, <2>1 DEF Image
  <2>3. v.transition = Nothing /\ v.to = t.current
    BY <1>8 DEF Full
  <2> QED BY <1>4, <1>5, <1>6, <2>2, <2>3 DEF Goes
\* or one goes on.
<1>9. CASE f.next # Nothing /\ t.next # Nothing /\ ~Complete(t) /\ v = Image(t)
  <2> DEFINE tr == t.next.transition
  <2>1. f.next = t.next /\ f.nextAge = Capped(t.nextAge) /\ f.current = t.current
    BY <1>1, <1>4, <1>9
  <2>2. tr \in Transitions /\ Duration[tr] \in Nat /\ Steps[tr] \in Nat /\ tr # Nothing
    BY <1>5, <1>6, <2>1, <1>9
  <2>3. t.nextAge \in Nat /\ f.nextAge \in Nat /\ t.nextAge <= f.nextAge
    BY <1>2, <1>9, <2>1 DEF Ordered, Side
  <2>4. v = [from |-> t.current, to |-> t.next.pattern, transition |-> tr, step |-> (t.nextAge * Steps[tr]) \div Duration[tr]]
    BY <1>9 DEF Image
  <2>5. CASE Complete(f)
    <3>1. Image(f) = Full(t.next.pattern)
      BY <1>9, <2>1, <2>5 DEF Image
    <3>2. Image(f).transition = Nothing /\ Image(f).from = t.next.pattern /\ v.to = t.next.pattern
      BY <2>4, <3>1 DEF Full
    <3> QED BY <1>4, <3>2 DEF Goes
  <2>6. CASE ~Complete(f)
    <3>1. Image(f) = [from |-> t.current, to |-> t.next.pattern, transition |-> tr,
                      step |-> (f.nextAge * Steps[tr]) \div Duration[tr]]
      BY <1>9, <2>1, <2>6 DEF Image
    <3>2. Duration[tr] # 0
      BY <2>1, <2>2, <2>3, <2>6 DEF Complete
    <3>3. (t.nextAge * Steps[tr]) \div Duration[tr] <= (f.nextAge * Steps[tr]) \div Duration[tr]
      BY <2>2, <2>3, <3>2, StepsGrow
    <3> DEFINE m == (t.nextAge * Steps[tr]) \div Duration[tr]
               n == (f.nextAge * Steps[tr]) \div Duration[tr]
    <3>4. m \in Int /\ n \in Int
      <4>1. t.nextAge * Steps[tr] \in Nat /\ f.nextAge * Steps[tr] \in Nat
        BY <2>2, <2>3
      <4> QED BY <2>2, <3>2, <4>1
    <3> HIDE DEF m, n, tr
    <3>5. Goes(v, Image(f))
      BY <2>2, <2>4, <3>1, <3>3, <3>4 DEF Goes, m, n
    <3> QED BY <1>4, <3>5
  <2> QED BY <2>5, <2>6
<1>10. \/ v = Full(t.current) /\ (f.next # Nothing => f.nextAge \in {0, 1})
       \/ t.next # Nothing /\ ~Complete(t) /\ v = Image(t)
  <2>1. CASE v = Full(t.current) /\ (t.next # Nothing => t.nextAge = 0)
    <3>1. t.lastAge = 0 /\ Capped(0) \in {0, 1}
      <4>1. 0 \in Nat /\ \A a \in Nat : 0 <= a /\ a <= 0 + 1 => a \in {0, 1}
        OBVIOUS
      <4>2. Capped(0) \in {0, 1}
        BY <1>2, <4>1
      <4> QED BY <4>2 DEF Seen
    <3>2. o.lastAge \in {0, 1} /\ (t.next # Nothing => o.nextAge \in {0, 1})
      BY <1>1, <2>1, <3>1
    <3> QED BY <1>4, <2>1, <3>2
  <2> QED BY <2>1 DEF Seen
<1> QED BY <1>4, <1>7, <1>8, <1>9, <1>10

\* What a frame renders: each side as it is, or with a change that takes more
\* than one period.
LEMMA FrameRenders ==
  ASSUME NEW q \in Names \cup {Unknown}, NEW i, NEW l \in Int,
         i = Nothing \/ i \in 0..(Len(EntriesOf(q)) - 1),
         NEW f \in [Sides -> Side], RenderTo(q, i, l, f)
  PROVE  \E g : /\ RenderSides(g)
                /\ \A s \in Sides : g[s] = f[s] \/ \E p \in Patterns, tr \in Gradual : g[s] = ChangeTo(f[s], p, tr)
<1> USE RendererAssumption DEF RendererAssumption
<1>1. EntriesOf(q) \in Seq(Entry)
  BY DEF EntriesOf
<1>2. ASSUME NEW j \in 0..(Len(EntriesOf(q)) - 1), StartEntry(q, j, f)
      PROVE  \E g : /\ RenderSides(g)
                    /\ \A s \in Sides : \E p \in Patterns, tr \in Gradual : g[s] = ChangeTo(f[s], p, tr)
  <2> DEFINE entry == EntriesOf(q)[j + 1]
  <2>1. q \in Names /\ j + 1 \in 1..Len(Entries[q]) /\ entry = Entries[q][j + 1] /\ entry \in Entry
    BY <1>1 DEF EntriesOf
  <2>2. entry.top \in Patterns /\ entry.main \in Patterns /\ Created[entry.transition] \subseteq Gradual
    <3>1. \A tr \in Created[entry.transition] : Duration[tr] > 1
      BY <2>1
    <3>2. Created[entry.transition] \subseteq Transitions
      BY <2>1 DEF Entry
    <3> QED BY <2>1, <3>1, <3>2 DEF Entry, Gradual
  <2>3. PICK top \in Created[entry.transition], main \in Created[entry.transition] :
          RenderSides([f EXCEPT !["top"] = ChangeTo(@, entry.top, top),
                                !["main"] = ChangeTo(@, entry.main, main)])
    BY <1>2 DEF StartEntry
  <2> HIDE DEF entry
  <2> DEFINE g == [f EXCEPT !["top"] = ChangeTo(@, entry.top, top),
                            !["main"] = ChangeTo(@, entry.main, main)]
  <2>4. g["top"] = ChangeTo(f["top"], entry.top, top) /\ g["main"] = ChangeTo(f["main"], entry.main, main)
    BY DEF Sides
  <2>5. RenderSides(g)
    BY <2>3
  <2> HIDE DEF g
  <2>6. \A s \in Sides : \E p \in Patterns, tr \in Gradual : g[s] = ChangeTo(f[s], p, tr)
    BY <2>2, <2>3, <2>4 DEF Sides
  <2> QED BY <2>5, <2>6
<1>3. CASE i = Nothing /\ EntriesOf(q) # <<>>
  <2>1. 0 \in 0..(Len(EntriesOf(q)) - 1) /\ StartEntry(q, 0, f)
    BY <1>1, <1>3 DEF RenderTo
  <2> QED BY <1>2, <2>1
<1>4. CASE i # Nothing /\ l <= 0
  <2> DEFINE j == IF i + 1 >= Len(EntriesOf(q)) THEN 0 ELSE i + 1
  <2>1. j \in 0..(Len(EntriesOf(q)) - 1)
    BY <1>1, <1>4
  <2>2. StartEntry(q, j, f)
    BY <1>4 DEF RenderTo
  <2> HIDE DEF j
  <2> QED BY <1>2, <2>1, <2>2
<1>5. CASE ~(i = Nothing /\ EntriesOf(q) # <<>>) /\ ~(i # Nothing /\ l <= 0)
  <2>1. RenderSides(f)
    BY <1>5 DEF RenderTo
  <2> QED BY <2>1
<1> QED BY <1>3, <1>4, <1>5

\* Sides that are rendered have been seen.
LEMMA SidesSeen ==
  ASSUME NEW g, \A s \in Sides : g[s] \in Side /\ Gentle(g[s]), RenderSides(g)
  PROVE  AsSeen'
<1>1. \A s \in Sides : Gentle(Rendered(g[s])) /\ Seen(Rendered(g[s]), Image(g[s]))
  BY RenderingSeen
<1>2. \A s \in Sides : side'[s] = Rendered(g[s]) /\ shown'[s] = Image(g[s])
  BY DEF RenderSides
<1> QED BY <1>1, <1>2 DEF AsSeen

\* Sides that change, from those that are as seen, are gentle.
LEMMA ChangedGentle ==
  ASSUME NEW t \in Side, Ordered(t), Gentle(t), NEW p \in Patterns, NEW tr \in Gradual
  PROVE  ChangeTo(t, p, tr) \in Side /\ Gentle(ChangeTo(t, p, tr))
<1> DEFINE change == [pattern |-> p, transition |-> tr]
           c == ChangeTo(t, p, tr)
<1>1. tr \in Transitions /\ change.transition \in Gradual
  BY DEF Gradual
<1>2. c \in Side
  BY <1>1, Changing
<1>3. \/ c = [t EXCEPT !.next = change, !.nextAge = t.lastAge]
      \/ c = [t EXCEPT !.pending = change]
  BY DEF ChangeTo
<1> HIDE DEF change
<1>4. \/ c.next = change /\ c.pending = t.pending
      \/ c.next = t.next /\ c.pending = change
  BY <1>3 DEF Side
<1> HIDE DEF c
<1>5. Gentle(c)
  BY <1>1, <1>4 DEF Gentle
<1> QED BY <1>2, <1>5 DEF c

LEMMA InitSeen == Init => AsSeen
  BY DEF Init, AsSeen, Gentle, Seen

\* Each step goes on from what was seen.
LEMMA NextSeen ==
  ASSUME Consistent, AsSeen, [Next]_vars
  PROVE  /\ AsSeen'
         /\ level = "RUNNING" /\ level' = "RUNNING" =>
               \A s \in Sides : shown'[s] = shown[s] \/ Goes(shown[s], shown'[s])
<1>1. /\ sequence \in Names \cup {Unknown} /\ left \in Int
      /\ index = Nothing \/ index \in 0..(Len(EntriesOf(sequence)) - 1)
      /\ side \in [Sides -> Side]
      /\ \A s \in Sides : Ordered(side[s]) /\ Gentle(side[s]) /\ Seen(side[s], shown[s])
  BY DEF Consistent, TypeOK, TimesOrdered, AsSeen
<1>2. CASE HandleStarting
  <2> DEFINE l == 0
  <2>1. level = "CONSTRUCTED" /\ RenderTo(Default, Nothing, l, side)
    BY <1>2 DEF HandleStarting
  <2>2. Default \in Names \cup {Unknown} /\ l \in Int
    BY RendererAssumption DEF RendererAssumption
  <2> HIDE DEF l
  <2>3. PICK g : /\ RenderSides(g)
                 /\ \A s \in Sides : g[s] = side[s] \/ \E p \in Patterns, tr \in Gradual : g[s] = ChangeTo(side[s], p, tr)
    BY <1>1, <2>1, <2>2, FrameRenders
  <2>4. \A s \in Sides : g[s] \in Side /\ Gentle(g[s])
    BY <1>1, <2>3, ChangedGentle
  <2> QED BY <2>1, <2>3, <2>4, SidesSeen
<1>3. CASE HandleTimeout
  <2> DEFINE f == [s \in Sides |-> Older(side[s])]
             l == IF index = Nothing THEN left ELSE left - 1
  <2>1. RenderTo(sequence, index, l, f)
    BY <1>3 DEF HandleTimeout
  <2>2. f \in [Sides -> Side] /\ \A s \in Sides : f[s] = Older(side[s])
    BY <1>1, Aging
  <2>3. l \in Int
    BY <1>1
  <2> HIDE DEF f, l
  <2>4. PICK g : /\ RenderSides(g)
                 /\ \A s \in Sides : g[s] = f[s] \/ \E p \in Patterns, tr \in Gradual : g[s] = ChangeTo(f[s], p, tr)
    BY <1>1, <2>1, <2>2, <2>3, FrameRenders
  <2>5. ASSUME NEW s \in Sides
        PROVE  g[s] \in Side /\ Gentle(g[s]) /\ (Image(g[s]) = shown[s] \/ Goes(shown[s], Image(g[s])))
    <3>1. g[s] = Older(side[s]) \/ \E p \in Patterns, tr \in Gradual : g[s] = ChangeTo(Older(side[s]), p, tr)
      BY <2>2, <2>4
    <3> QED BY <1>1, <3>1, OlderGoes
  <2>6. \A s \in Sides : shown'[s] = Image(g[s])
    BY <2>4 DEF RenderSides
  <2> QED BY <2>4, <2>5, <2>6, SidesSeen
<1>4. CASE HandleStopping
  <2> DEFINE f == [s \in Sides |-> ChangeToBlack(side[s])]
  <2>1. level' = "STOPPED" /\ RenderTo(Unknown, Nothing, left, f)
    BY <1>4 DEF HandleStopping
  <2>2. \A s \in Sides : f[s] \in Side /\ f[s].next = Nothing /\ f[s].pending = Nothing
    <3>1. ASSUME NEW t \in Side PROVE ChangeToBlack(t).next = Nothing /\ ChangeToBlack(t).pending = Nothing
      BY DEF ChangeToBlack, Side
    <3> QED BY <1>1, <3>1, Blackening
  <2>3. EntriesOf(Unknown) = <<>>
    BY DEF EntriesOf
  <2>4. RenderSides(f)
    BY <2>1, <2>3 DEF RenderTo
  <2> HIDE DEF f
  <2>5. \A s \in Sides : Gentle(f[s])
    BY <2>2 DEF Gentle
  <2> QED BY <2>1, <2>2, <2>4, <2>5, SidesSeen
<1>5. CASE UNCHANGED <<side, shown>>
  BY <1>5 DEF AsSeen
<1>6. CASE \E n \in Names \cup {Unknown} : ChangeToSequence(n)
  BY <1>5, <1>6 DEF ChangeToSequence
<1>7. CASE UNCHANGED vars
  BY <1>5, <1>7 DEF vars
<1> QED BY <1>2, <1>3, <1>4, <1>6, <1>7 DEF Next

\* Whatever changes of the sequence come between frames, and whichever
\* transitions Random returns, no frame jumps: each goes on from what the last
\* one has shown (TransitionPattern::RenderTo).
THEOREM NeverJumps == Spec => Smooth
<1> DEFINE I == Consistent /\ AsSeen
           A == level = "RUNNING" /\ level' = "RUNNING" =>
                   \A s \in Sides : shown'[s] = shown[s] \/ Goes(shown[s], shown'[s])
<1>1. Init => I
  BY InitConsistent, InitSeen
<1>2. I /\ [Next]_vars => I' /\ A
  BY NextConsistent, NextSeen
<1>3. Spec => [][A]_vars
  <2> HIDE DEF I, A
  <2> QED BY <1>1, <1>2, PTL DEF Spec
<1> QED BY <1>3 DEF Smooth
=============================================================================
