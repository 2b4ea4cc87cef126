--------------------------- MODULE SchedulersProofs ---------------------------
(***************************************************************************)
(* Proofs about the helpers of MCSchedulers, for any values of their       *)
(* constants.                                                              *)
(*                                                                         *)
(* OneShotWork: TypeOK and TokensMatchPosted are inductive together with   *)
(* two facts on the run level: it leaves RUNNING only once a stop was      *)
(* requested, and then nothing is pending any more.                        *)
(*                                                                         *)
(* Timer: Consistent is inductive together with a bound on the calls that  *)
(* are left, and with its level leaving RUNNING only after RequestStop.    *)
(* That the waits are counted is a fact about the cardinality of what      *)
(* Abort makes of them, which is that of the waits as no two of them share *)
(* a number.                                                               *)
(*                                                                         *)
(* ConsoleShutdown: MutexHeld says which frame of which thread has the     *)
(* mutex, and LiveWhileUsed what the frames that have it may use.          *)
(*                                                                         *)
(* ThreadPool: OnItsWay are the items that are posted back, run and queued, *)
(* in the order they complete, and WorkCounted says that each reference has *)
(* as many of them as it counts.  The refinement of WorkService maps the   *)
(* same items.                                                             *)
(*                                                                         *)
(* AudioThread: ReleaseComes follows a note that is on to the release of   *)
(* its key, through the driver's events, in order.  The other parts say    *)
(* where the thread may be at each run level, and the driver with it.      *)
(***************************************************************************)
EXTENDS MCSchedulers, FiniteSetTheorems, SequenceTheorems, TLAPS

-----------------------------------------------------------------------------
\* OneShotWork.

NothingPending == level # "RUNNING" => stopping /\ pending = 0

IInv == TypeOK /\ TokensMatchPosted /\ NothingPending

\* The initial state satisfies the inductive invariant.
LEMMA InitInv == Init => IInv
<1> SUFFICES ASSUME Init PROVE IInv
  OBVIOUS
<1> USE DEF Init
<1>1. TypeOK
  <2>1. next \in 1 .. MaxTokens + 1 /\ pending \in 0 .. MaxTokens /\ last \in 0 .. MaxTokens
    BY OneShotWorkAssumption DEF OneShotWorkAssumption
  <2>2. stopping \in BOOLEAN /\ busy \in BOOLEAN
    OBVIOUS
  <2> QED BY <2>1, <2>2 DEF TypeOK
<1>2. TokensMatchPosted
  BY DEF TokensMatchPosted
<1>3. NothingPending
  BY DEF NothingPending
<1> QED BY <1>1, <1>2, <1>3 DEF IInv

\* Every step keeps the inductive invariant: handlers are counted when they are
\* posted and when they run, and nothing is scheduled once the work stops.
LEMMA NextInv == IInv /\ [Next]_vars => IInv'
<1> SUFFICES ASSUME IInv, [Next]_vars PROVE IInv'
  OBVIOUS
<1> USE OneShotWorkAssumption DEF OneShotWorkAssumption, IInv, TypeOK, TokensMatchPosted, NothingPending
<1>1. CASE Use
  <2>1. CASE Cancel
    BY <1>1, <2>1 DEF Use, Cancel
  <2>2. CASE next <= MaxTokens /\ Schedule
    BY <1>1, <2>2 DEF Use, Schedule
  <2> QED BY <1>1, <2>1, <2>2 DEF Use
<1>2. CASE DoCallback
  <2>1. stopping' \in BOOLEAN /\ busy' \in BOOLEAN
    BY <1>2 DEF DoCallback
  <2>2. level' \in {"RUNNING", "STOPPING", "STOPPED"}
    BY <1>2 DEF DoCallback, CheckShutdown
  <2>3. next' = next /\ last' = last + 1 /\ posted' = posted - 1 /\ posted > 0
    BY <1>2 DEF DoCallback
  <2>4. pending' \in {0, pending} /\ (pending' # 0 => pending # last + 1)
    BY <1>2 DEF DoCallback
  <2>5. called' \in {0, 1}
    BY <1>2 DEF DoCallback
  <2>6. TypeOK'
    BY <2>1, <2>2, <2>3, <2>4, <2>5
  <2>7. level' = "STOPPED" => posted' = 0 /\ ~busy'
    BY <1>2 DEF DoCallback, CheckShutdown
  <2>8. TokensMatchPosted'
    BY <2>3, <2>4, <2>7
  <2>9. NothingPending'
    BY <1>2 DEF DoCallback, CheckShutdown
  <2> QED BY <2>6, <2>8, <2>9
<1>3. CASE CallbackReturns
  <2>1. level' \in {"RUNNING", "STOPPING", "STOPPED"} /\ busy' = FALSE
    BY <1>3 DEF CallbackReturns, CheckShutdown
  <2>2. UNCHANGED <<stopping, next, pending, last, posted, called>>
    BY <1>3 DEF CallbackReturns
  <2>3. TypeOK'
    BY <2>1, <2>2
  <2>4. TokensMatchPosted'
    BY <1>3 DEF CallbackReturns, CheckShutdown
  <2>5. NothingPending'
    BY <1>3 DEF CallbackReturns, CheckShutdown
  <2> QED BY <2>3, <2>4, <2>5
<1>4. CASE RequestStop
  BY <1>4 DEF RequestStop
<1>5. CASE HandleStopping
  BY <1>5 DEF HandleStopping
<1>6. CASE Stopped \/ UNCHANGED vars
  BY <1>6 DEF Stopped, vars
<1> QED BY <1>1, <1>2, <1>3, <1>4, <1>5, <1>6 DEF Next

\* The inductive invariant holds in every behaviour.
THEOREM Invariance == Spec => []IInv
  BY InitInv, NextInv, PTL DEF Spec

\* The variables keep their types.
THEOREM TypeCorrect == Spec => []TypeOK
<1>1. IInv => TypeOK
  BY DEF IInv
<1> QED BY <1>1, Invariance, PTL

\* The tokens always tell which handlers are queued, and a stopped work has
\* none (DoCallback's assertion, CheckShutdown).
THEOREM StaysConsistent == Spec => []Consistent
<1>1. IInv => Consistent
  BY DEF IInv, Consistent
<1> QED BY <1>1, Invariance, PTL

\* Every initial state is one of the owner's Trigger.
LEMMA InitRefines == Init => Owner!Init
  BY DEF Init, Owner!Init

\* Every step is a step of the owner's Trigger or leaves it as it is.
LEMMA NextRefines == 
  IInv /\ [Next]_vars => 
    [Owner!Next]_<<IF pending = 0 THEN 0 ELSE 1, called, level>>
<1> DEFINE view == <<IF pending = 0 THEN 0 ELSE 1, called, level>>
<1> SUFFICES ASSUME IInv, [Next]_vars PROVE Owner!Next \/ UNCHANGED view
  OBVIOUS
<1> USE OneShotWorkAssumption DEF OneShotWorkAssumption, IInv, TypeOK, TokensMatchPosted, NothingPending
<1>1. CASE Use
  <2>1. Owner!Set
    BY <1>1 DEF Use, Cancel, Schedule, Owner!Set
  <2> QED BY <2>1 DEF Owner!Next
<1>2. CASE DoCallback
  <2>1. CASE pending = last + 1
    <3>1. Owner!Fire
      BY <1>2, <2>1 DEF DoCallback, Owner!Fire, Owner!Less
    <3> QED BY <3>1 DEF Owner!Next
  <2>2. CASE pending # last + 1 /\ level' = level
    BY <1>2, <2>2 DEF DoCallback
  <2>3. CASE pending # last + 1 /\ level' # level
    <3>1. Owner!Stopped
      BY <1>2, <2>3 DEF DoCallback, CheckShutdown, Owner!Stopped
    <3> QED BY <3>1 DEF Owner!Next
  <2> QED BY <2>1, <2>2, <2>3
<1>3. CASE CallbackReturns
  <2>1. CASE level' = level
    BY <1>3, <2>1 DEF CallbackReturns
  <2>2. CASE level' # level
    <3>1. Owner!Stopped
      BY <1>3, <2>2 DEF CallbackReturns, CheckShutdown, Owner!Stopped
    <3> QED BY <3>1 DEF Owner!Next
  <2> QED BY <2>1, <2>2
<1>4. CASE RequestStop
  BY <1>4 DEF RequestStop
<1>5. CASE HandleStopping
  <2>1. Owner!Stop \/ Owner!Stopped
    BY <1>5 DEF HandleStopping, Owner!Stop, Owner!Stopped
  <2> QED BY <2>1 DEF Owner!Next
<1>6. CASE Stopped \/ UNCHANGED vars
  BY <1>6 DEF Stopped, vars
<1> QED BY <1>1, <1>2, <1>3, <1>4, <1>5, <1>6 DEF Next

\* Only the owner schedules or cancels it, apart from its call and the stop.
LEMMA OwnerAloneSchedules ==
  IInv /\ [Next]_vars => (called' = called /\ level' = level /\ pending' # pending => Use)
<1> SUFFICES ASSUME IInv, [Next]_vars, called' = called, level' = level, ~Use
             PROVE  pending' = pending
  OBVIOUS
<1>1. CASE DoCallback
  <2>1. called \in {0, 1} /\ called' # 1 - called
    BY DEF IInv, TypeOK
  <2> QED BY <1>1, <2>1 DEF DoCallback
<1>2. CASE HandleStopping
  BY <1>2 DEF HandleStopping
<1>3. CASE CallbackReturns \/ RequestStop \/ Stopped \/ UNCHANGED vars
  BY <1>3 DEF CallbackReturns, RequestStop, Stopped, vars
<1> QED BY <1>1, <1>2, <1>3 DEF Next

\* A OneShotWork implements the safety part of a Trigger that its owner alone arms:
\* its callback is called only while it is scheduled, once, and never after it was
\* cancelled or told to stop.
THEOREM ImplementsSafety == Spec => KeepsPromise
<1> DEFINE view == <<IF pending = 0 THEN 0 ELSE 1, called, level>>
<1>1. Init => Owner!Init
  BY InitRefines
<1>2. IInv /\ [Next]_vars => [Owner!Next]_view
  BY NextRefines
<1> DEFINE A == called' = called /\ level' = level /\ pending' # pending => Use
<1>3. IInv /\ [Next]_vars => A
  BY OwnerAloneSchedules
<1>4. Spec => [][A]_vars
  <2> HIDE DEF A
  <2> QED BY <1>3, Invariance, PTL DEF Spec
<1>5. Spec => Owner!Safety
  BY <1>1, <1>2, Invariance, PTL DEF Spec, Owner!Safety
<1> QED BY <1>4, <1>5 DEF KeepsPromise, OwnerSchedules

-----------------------------------------------------------------------------
\* Timer.

\* A run of calls has fewer than Forever left, or is one without end; and the level
\* leaves RUNNING only after RequestStop.
CallsBounded ==
    /\ periodic => remaining = Forever \/ remaining + 1 < Forever
    /\ tlevel # "RUNNING" => tstopping

TimerInv == Timing!Consistent /\ IsFiniteSet(waits) /\ CallsBounded

\* The instance's cardinality is that of FiniteSets.
LEMMA SameCardinality == ASSUME NEW S PROVE Timing!Cardinality(S) = Cardinality(S)
  BY DEF Timing!Cardinality, Cardinality

Waits == [seq : Timing!Seq, done : Timing!Done]

OneOfANumber(ws) == \A v, w \in ws : v.seq = w.seq => v = w

\* Aborting the wait that has not expired leaves as many waits, with the same
\* numbers, and none that may still expire.
LEMMA Aborting ==
    ASSUME NEW ws \in SUBSET Waits, IsFiniteSet(ws), OneOfANumber(ws)
    PROVE  /\ Timing!Abort(ws) \subseteq Waits
           /\ IsFiniteSet(Timing!Abort(ws)) /\ Cardinality(Timing!Abort(ws)) = Cardinality(ws)
           /\ OneOfANumber(Timing!Abort(ws))
           /\ \A v \in Timing!Abort(ws) : v.done # "no" /\ \E w \in ws : w.seq = v.seq
<1> DEFINE f == [w \in ws |-> IF w.done = "no" THEN [w EXCEPT !.done = "aborted"] ELSE w]
<1>1. \A w \in ws : f[w] \in Waits /\ f[w].seq = w.seq /\ f[w].done # "no"
  BY DEF Waits, Timing!Done
<1>2. Timing!Abort(ws) = {f[w] : w \in ws}
  BY DEF Timing!Abort
<1>3. f \in Surjection(ws, Timing!Abort(ws))
  BY <1>2 DEF Surjection
<1>4. f \in Injection(ws, Timing!Abort(ws))
  <2> HIDE DEF f
  <2>1. \A v, w \in ws : f[v] = f[w] => v = w
    BY <1>1 DEF OneOfANumber
  <2>2. f \in [ws -> Timing!Abort(ws)]
    BY <1>3 DEF Surjection
  <2>3. DOMAIN f = ws
    BY <2>2
  <2> QED BY <2>1, <2>2, <2>3 DEF Injection, IsInjective
<1>5. IsFiniteSet(Timing!Abort(ws)) /\ Cardinality(Timing!Abort(ws)) = Cardinality(ws)
  BY <1>3, <1>4, FS_Surjection
<1>6. OneOfANumber(Timing!Abort(ws))
  <2> HIDE DEF f
  <2> QED BY <1>1, <1>2 DEF OneOfANumber
<1> HIDE DEF f
<1> QED BY <1>1, <1>2, <1>5, <1>6

\* A wait that is queued beside others, which are counted, is the one that makes the
\* timer fire, and is counted.
LEMMA Queueing ==
    ASSUME NEW ws \in SUBSET Waits, IsFiniteSet(ws), OneOfANumber(ws),
           Timing!Queue(ws, Cardinality(ws)), tcalled' \in {0, 1}, MaxWaits \in Nat
    PROVE  /\ waits' \subseteq Waits /\ IsFiniteSet(waits') /\ tpending' = Cardinality(waits')
           /\ tpending' \in Nat /\ waits' # {}
           /\ cur' \in Timing!Seq /\ wait' = cur'
           /\ Timing!RunningWillFire'
<1>1. PICK s \in Timing!Fresh(ws) :
          /\ cur' = s /\ wait' = s
          /\ waits' = Timing!Abort(ws) \cup {[seq |-> s, done |-> "no"]}
          /\ tpending' = Cardinality(ws) + 1
  BY DEF Timing!Queue
<1> DEFINE w == [seq |-> s, done |-> "no"]
<1>2. s \in Timing!Seq /\ \A v \in ws : v.seq # s
  BY DEF Timing!Fresh
<1>3. w \in Waits /\ w.seq = s /\ w.done = "no"
  BY <1>2 DEF Waits, Timing!Done
<1> HIDE DEF w
<1>4. \A v \in Timing!Abort(ws) : v.seq # s /\ v.done # "no"
  BY <1>2, Aborting
<1>5. w \notin Timing!Abort(ws)
  BY <1>3, <1>4
<1>6. waits' = Timing!Abort(ws) \cup {w}
  BY <1>1 DEF w
<1>7. Cardinality(ws) \in Nat
  BY FS_CardinalityType
<1>8. IsFiniteSet(waits') /\ Cardinality(waits') = Cardinality(ws) + 1
  BY <1>5, <1>6, Aborting, FS_AddElement
<1>9. waits' \subseteq Waits
  BY <1>3, <1>6, Aborting
<1>10. Timing!RunningWillFire'
  <2>1. OneOfANumber(Timing!Abort(ws))
    BY Aborting
  <2>2. \A u, v \in waits' : u.seq = v.seq => u = v
    BY <1>3, <1>4, <1>6, <2>1 DEF OneOfANumber
  <2>3. \E v \in waits' : v.seq = wait' /\ v.done # "aborted"
    BY <1>1, <1>3, <1>6
  <2>4. \A v \in waits' : v.done = "no" => wait' = cur' /\ v.seq = wait'
    BY <1>1, <1>3, <1>4, <1>6
  <2> QED BY <2>2, <2>3, <2>4 DEF Timing!RunningWillFire, Timing!IsRunning
<1> QED BY <1>1, <1>2, <1>6, <1>7, <1>8, <1>9, <1>10

\* The initial state satisfies the inductive invariant.
LEMMA TimerInitInv == Timing!Init => TimerInv
<1> SUFFICES ASSUME Timing!Init PROVE TimerInv
  OBVIOUS
<1>1. /\ tlevel = "RUNNING" /\ tstopping = FALSE /\ tbusy = FALSE /\ cur = 1 /\ wait = 0
      /\ periodic = FALSE /\ remaining = 0 /\ tpending = 0 /\ waits = {} /\ tcalled = 0
  BY DEF Timing!Init
<1>2. IsFiniteSet(waits) /\ Cardinality(waits) = 0
  BY <1>1, FS_EmptySet
<1>3. Timing!TypeOK
  <2>1. 1 \in Timing!Seq /\ 0 \in 0 .. Forever
    BY MCSchedulersAssumption DEF MCSchedulersAssumption, Timing!TimerAssumption, Timing!Seq
  <2> QED BY <1>1, <2>1 DEF Timing!TypeOK
<1>4. Timing!PendingCounted /\ Timing!RunningWillFire /\ Timing!StoppedWhenIdle /\ CallsBounded
  BY <1>1, <1>2, SameCardinality DEF Timing!PendingCounted, Timing!RunningWillFire, Timing!StoppedWhenIdle,
      Timing!IsRunning, CallsBounded
<1> QED BY <1>2, <1>3, <1>4 DEF TimerInv, Timing!Consistent

\* Every step of the timer, its owner and asio keeps it.
LEMMA TimerNextInv == TimerInv /\ [Timing!Next]_(Timing!vars) => TimerInv'
<1> SUFFICES ASSUME TimerInv, [Timing!Next]_(Timing!vars) PROVE TimerInv'
  OBVIOUS
<1> USE DEF Timing!runVars, Timing!IsRunning
<1>a. /\ MaxWaits \in Nat /\ Forever \in Nat \ {0} /\ Times \subseteq 0 .. Forever
      /\ 0 \notin Timing!Seq
  BY MCSchedulersAssumption DEF MCSchedulersAssumption, Timing!TimerAssumption, Timing!Seq
<1>b. /\ waits \in SUBSET Waits /\ IsFiniteSet(waits) /\ OneOfANumber(waits)
      /\ tpending = Cardinality(waits) /\ tpending \in Nat
      /\ tlevel \in {"RUNNING", "STOPPING", "STOPPED"} /\ (tlevel = "STOPPED" => waits = {})
      /\ tstopping \in BOOLEAN /\ tbusy \in BOOLEAN /\ periodic \in BOOLEAN
      /\ cur \in Timing!Seq /\ wait \in Timing!Seq \cup {0}
      /\ remaining \in 0 .. Forever /\ tcalled \in {0, 1}
      /\ (tstopping => wait # cur) /\ (tlevel # "RUNNING" => tstopping)
      /\ (periodic => remaining = Forever \/ remaining + 1 < Forever)
  BY SameCardinality DEF TimerInv, Timing!Consistent, Timing!TypeOK, Timing!PendingCounted,
         CallsBounded, Timing!RunningWillFire, Timing!StoppedWhenIdle, OneOfANumber, Waits
<1>c. Timing!RunningWillFire
  BY DEF TimerInv, Timing!Consistent
\* What a step must leave, with the waits apart from the rest.
<1> DEFINE WaitsKept ==
              /\ waits' \subseteq Waits /\ IsFiniteSet(waits') /\ tpending' = Cardinality(waits')
              /\ tpending' \in Nat /\ Timing!RunningWillFire'
           RestKept ==
              /\ tlevel' \in {"RUNNING", "STOPPING", "STOPPED"}
              /\ tlevel' = "STOPPED" => waits' = {}
              /\ tstopping' \in BOOLEAN /\ tbusy' \in BOOLEAN /\ periodic' \in BOOLEAN
              /\ cur' \in Timing!Seq /\ wait' \in Timing!Seq \cup {0}
              /\ remaining' \in 0 .. Forever /\ tcalled' \in {0, 1}
              /\ tstopping' => wait' # cur'
              /\ tlevel' # "RUNNING" => tstopping'
              /\ periodic' => remaining' = Forever \/ remaining' + 1 < Forever
<1>d. ASSUME WaitsKept, RestKept PROVE TimerInv'
  BY <1>d, SameCardinality DEF TimerInv, Timing!Consistent, Timing!TypeOK, Timing!PendingCounted,
         CallsBounded,
         Timing!StoppedWhenIdle, Waits
<1>e. /\ IsFiniteSet({}) /\ Cardinality({}) = 0
      /\ waits = {} <=> tpending = 0
  BY <1>b, FS_EmptySet
<1>f. \A n \in 1 .. Forever :
          /\ Timing!NumLeft(n) \in 0 .. Forever
          /\ Timing!NumLeft(n) = Forever \/ Timing!NumLeft(n) + 1 < Forever
  BY <1>a DEF Timing!NumLeft
<1>1. CASE Timing!Use
  <2>1. /\ tlevel = "RUNNING" /\ ~tstopping
        /\ UNCHANGED <<tlevel, tstopping, tbusy, tcalled>>
    BY <1>1 DEF Timing!Use
  <2>2. CASE Timing!Cancel
    <3>1. /\ waits' = IF wait = cur THEN Timing!Abort(waits) ELSE waits
          /\ wait' = 0 /\ UNCHANGED <<cur, periodic, remaining, tpending>>
      BY <2>2 DEF Timing!Cancel
    <3>2. wait' # cur'
      BY <1>a, <1>b, <3>1
    <3>3. WaitsKept
      <4>1. CASE wait = cur
        <5>1. waits' = Timing!Abort(waits) /\ \A v \in waits' : v.done # "no"
          BY <1>b, <3>1, <4>1, Aborting
        <5>2. Timing!RunningWillFire'
          BY <1>b, <3>2, <5>1, Aborting DEF Timing!RunningWillFire, OneOfANumber
        <5> QED BY <1>b, <3>1, <5>1, <5>2, Aborting
      <4>2. CASE wait # cur
        BY <1>b, <1>c, <3>1, <3>2, <4>2 DEF Timing!RunningWillFire
      <4> QED BY <4>1, <4>2
    <3> HIDE DEF WaitsKept
    <3> QED BY <1>b, <1>d, <2>1, <3>1, <3>2, <3>3
  <2>3. CASE Timing!StartSingleShot
    BY <1>a, <1>b, <1>d, <2>1, <2>3, Queueing DEF Timing!StartSingleShot
  <2>4. ASSUME NEW times \in Times \ {0}, Timing!StartPeriodic(times) PROVE TimerInv'
    <3>1. times \in 1 .. Forever
      BY <1>a
    <3>2. Timing!Queue(waits, tpending) /\ periodic' = TRUE /\ remaining' = Timing!NumLeft(times)
      BY <2>4 DEF Timing!StartPeriodic
    <3>3. WaitsKept /\ cur' \in Timing!Seq /\ wait' = cur'
      BY <1>a, <1>b, <2>1, <3>2, Queueing
    <3> QED BY <1>b, <1>d, <1>f, <2>1, <3>1, <3>2, <3>3
  <2> QED BY <1>1, <2>2, <2>3, <2>4 DEF Timing!Use
<1>2. CASE Timing!Expire
  <2>1. PICK w \in waits :
            w.done = "no" /\ waits' = (waits \ {w}) \cup {[w EXCEPT !.done = "expired"]}
    BY <1>2 DEF Timing!Expire
  <2>2. UNCHANGED <<tlevel, tstopping, tbusy, cur, wait, periodic, remaining, tpending, tcalled>>
    BY <1>2 DEF Timing!Expire
  <2> DEFINE x == [w EXCEPT !.done = "expired"]
  <2>3. x \in Waits /\ x.seq = w.seq /\ x.done = "expired"
    BY <1>b DEF Waits, Timing!Done
  <2> HIDE DEF x
  <2>4. waits' = (waits \ {w}) \cup {x}
    BY <2>1 DEF x
  <2>5. \A v \in waits \ {w} : v.seq # x.seq
    BY <1>b, <2>3 DEF OneOfANumber
  <2>6. IsFiniteSet(waits \ {w}) /\ Cardinality(waits \ {w}) = tpending - 1
    BY <1>b, FS_RemoveElement
  <2>7. IsFiniteSet(waits') /\ Cardinality(waits') = tpending
    <3>1. x \notin waits \ {w}
      BY <2>5
    <3>2. Cardinality(waits') = Cardinality(waits \ {w}) + 1 /\ IsFiniteSet(waits')
      BY <2>4, <2>6, <3>1, FS_AddElement
    <3> QED BY <1>b, <2>6, <3>2
  <2>8. Timing!RunningWillFire'
    BY <1>b, <1>c, <2>1, <2>2, <2>3, <2>4, <2>5 DEF Timing!RunningWillFire, OneOfANumber
  <2>9. tlevel # "STOPPED"
    BY <1>b
  <2> QED BY <1>b, <1>d, <2>2, <2>3, <2>4, <2>7, <2>8, <2>9
<1>3. ASSUME NEW w \in waits, Timing!HandleTimeout(w) PROVE TimerInv'
  <2> DEFINE rest == waits \ {w}
  <2>1. /\ IsFiniteSet(rest) /\ Cardinality(rest) = tpending - 1 /\ tpending - 1 \in Nat
        /\ rest \in SUBSET Waits /\ OneOfANumber(rest)
    <3>1. IsFiniteSet(rest) /\ Cardinality(rest) = tpending - 1
      BY <1>b, FS_RemoveElement
    <3>2. Cardinality(rest) \in Nat
      BY <3>1, FS_CardinalityType
    <3> QED BY <1>b, <3>1, <3>2 DEF OneOfANumber
  <2>2. tlevel # "STOPPED" /\ w.done # "no" /\ ~tbusy
    BY <1>b, <1>3 DEF Timing!HandleTimeout
  <2>3. rest = {} <=> tpending - 1 = 0
    BY <2>1, FS_EmptySet
  <2>4. CASE ~Timing!Current(w)
    <3>1. /\ waits' = rest /\ tpending' = tpending - 1
          /\ tlevel' = IF tlevel = "STOPPING" /\ tpending - 1 = 0 THEN "STOPPED" ELSE tlevel
          /\ UNCHANGED <<tstopping, tbusy, cur, wait, periodic, remaining, tcalled>>
      BY <1>3, <2>4 DEF Timing!HandleTimeout, Timing!CheckShutdown
    <3>2. ASSUME wait = cur PROVE \E v \in rest : v.seq = wait /\ v.done # "aborted"
      <4>1. PICK v \in waits : v.seq = wait /\ v.done # "aborted"
        BY <1>c, <3>2 DEF Timing!RunningWillFire
      <4>2. v # w
        BY <1>b, <2>2, <2>4, <3>2, <4>1 DEF Timing!Current, Waits, Timing!Done
      <4> QED BY <4>1, <4>2
    <3>3. Timing!RunningWillFire'
      BY <1>c, <3>1, <3>2 DEF Timing!RunningWillFire
    <3> HIDE DEF rest
    <3> QED BY <1>b, <1>d, <2>1, <2>2, <2>3, <3>1, <3>3
  <2>5. CASE Timing!Current(w)
    <3>1. /\ w.done = "expired" /\ wait = cur /\ wait = w.seq
          /\ tbusy' = TRUE /\ tcalled' = 1 - tcalled
          /\ UNCHANGED <<tlevel, tstopping, periodic>>
      BY <1>3, <2>5 DEF Timing!HandleTimeout, Timing!Current
    <3>2. tlevel = "RUNNING" /\ ~tstopping /\ tcalled' \in {0, 1}
      BY <1>b, <3>1
    <3>3. CASE periodic /\ tlevel # "STOPPING" /\ remaining > 0
      <4>1. Timing!Queue(rest, tpending - 1) /\ remaining' = Timing!NumLeft(remaining)
        BY <1>3, <2>5, <3>3 DEF Timing!HandleTimeout, Timing!Rearm
      <4>2. remaining \in 1 .. Forever
        BY <1>a, <1>b, <3>3
      <4> HIDE DEF rest
      <4>3. WaitsKept /\ cur' \in Timing!Seq /\ wait' = cur'
        BY <1>a, <2>1, <3>2, <4>1, Queueing
      <4> QED BY <1>b, <1>d, <1>f, <3>1, <3>2, <4>1, <4>2, <4>3
    <3>4. CASE ~(periodic /\ tlevel # "STOPPING" /\ remaining > 0)
      <4>1. /\ wait' = 0 /\ waits' = rest /\ tpending' = tpending - 1
            /\ UNCHANGED <<cur, remaining>>
        BY <1>3, <2>5, <3>4 DEF Timing!HandleTimeout
      <4>2. \A v \in rest : v.done # "no"
        BY <1>b, <1>c, <3>1 DEF Timing!RunningWillFire, OneOfANumber
      <4>3. Timing!RunningWillFire'
        BY <1>a, <1>b, <2>1, <4>1, <4>2 DEF Timing!RunningWillFire, OneOfANumber
      <4> HIDE DEF rest
      <4> QED BY <1>b, <1>d, <2>1, <3>1, <3>2, <4>1, <4>3
    <3> QED BY <3>3, <3>4
  <2> QED BY <2>4, <2>5
<1>4. CASE Timing!CallbackReturns
  <2>1. /\ tbusy' = FALSE
        /\ tlevel' = IF tlevel = "STOPPING" /\ tpending = 0 THEN "STOPPED" ELSE tlevel
        /\ UNCHANGED <<tstopping, cur, wait, periodic, remaining, tpending, waits, tcalled>>
    BY <1>4 DEF Timing!CallbackReturns, Timing!CheckShutdown
  <2>2. Timing!RunningWillFire'
    BY <1>c, <2>1 DEF Timing!RunningWillFire
  <2> QED BY <1>b, <1>d, <1>e, <2>1, <2>2
<1>5. CASE Timing!RequestStop
  <2>1. /\ tlevel = "RUNNING" /\ wait # cur /\ tstopping' = TRUE
        /\ UNCHANGED <<tlevel, tbusy, cur, wait, periodic, remaining, tpending, waits, tcalled>>
    BY <1>5 DEF Timing!RequestStop
  <2>2. Timing!RunningWillFire'
    BY <1>c, <2>1 DEF Timing!RunningWillFire
  <2> QED BY <1>b, <1>d, <2>1, <2>2
<1>6. CASE Timing!HandleStopping
  <2>1. /\ tstopping /\ tlevel' = IF tpending = 0 THEN "STOPPED" ELSE "STOPPING"
        /\ UNCHANGED <<tstopping, tbusy, cur, wait, periodic, remaining, tpending, waits, tcalled>>
    BY <1>6 DEF Timing!HandleStopping
  <2>2. Timing!RunningWillFire'
    BY <1>c, <2>1 DEF Timing!RunningWillFire
  <2> QED BY <1>b, <1>d, <1>e, <2>1, <2>2
<1>7. CASE Timing!Stopped \/ UNCHANGED Timing!vars
  <2>1. UNCHANGED <<tlevel, tstopping, tbusy, cur, wait, periodic, remaining, tpending, waits, tcalled>>
    BY <1>7 DEF Timing!Stopped, Timing!vars
  <2>2. Timing!RunningWillFire'
    BY <1>c, <2>1 DEF Timing!RunningWillFire
  <2> QED BY <1>b, <1>d, <2>1, <2>2
<1> QED BY <1>1, <1>2, <1>3, <1>4, <1>5, <1>6, <1>7 DEF Timing!Next

\* What asio, the counters and the owner believe about the outstanding timeouts always
\* agrees: m_pending_timeouts never misses one, a stopped timer has none left, and a
\* running one has exactly the wait that makes it fire.
THEOREM TimerStaysConsistent == Timing!Spec => []Timing!Consistent
<1>1. TimerInv => Timing!Consistent
  BY DEF TimerInv
<1> QED BY <1>1, TimerInitInv, TimerNextInv, PTL DEF Timing!Spec

\* Every step is one of the owner's Trigger or leaves its view alone: a call is made only
\* while one is owed, and there is then one less, unless they are to go on for ever.
LEMMA TimerNextRefines ==
    TimerInv /\ [Timing!Next]_(Timing!vars)
        => [Timing!Owner!Next]_<<Timing!Owed, tcalled, tlevel>>
<1> DEFINE view == <<Timing!Owed, tcalled, tlevel>>
<1> SUFFICES ASSUME TimerInv, [Timing!Next]_(Timing!vars)
             PROVE  Timing!Owner!Next \/ UNCHANGED view
  OBVIOUS
<1> USE DEF Timing!runVars, Timing!IsRunning, Timing!Owed
<1>a. /\ Forever \in Nat \ {0, 1} /\ Times \subseteq 0 .. Forever /\ 0 \notin Timing!Seq
  BY MCSchedulersAssumption DEF MCSchedulersAssumption, Timing!TimerAssumption, Timing!Seq
<1>b. /\ tlevel \in {"RUNNING", "STOPPING", "STOPPED"} /\ periodic \in BOOLEAN
      /\ cur \in Timing!Seq /\ remaining \in 0 .. Forever
      /\ (tstopping => wait # cur) /\ (tlevel # "RUNNING" => tstopping)
      /\ (periodic => remaining = Forever \/ remaining + 1 < Forever)
  BY DEF TimerInv, Timing!Consistent, Timing!TypeOK, CallsBounded, Timing!StoppedWhenIdle
<1>1. CASE Timing!Use
  <2>1. tlevel = "RUNNING" /\ UNCHANGED <<tlevel, tcalled>>
    BY <1>1 DEF Timing!Use
  <2>2. CASE Timing!Cancel
    <3>1. wait' = 0 /\ cur' = cur
      BY <2>2 DEF Timing!Cancel
    <3>2. Timing!Owed' = 0
      BY <1>a, <1>b, <3>1
    <3> QED BY <2>1, <3>2 DEF Timing!Owner!Set, Timing!Owner!Next
  <2>3. CASE Timing!StartSingleShot
    <3>1. Timing!Owed' = 1
      BY <2>3 DEF Timing!StartSingleShot, Timing!Queue
    <3> QED BY <2>1, <3>1 DEF Timing!Owner!Set, Timing!Owner!Next
  <2>4. ASSUME NEW times \in Times \ {0}, Timing!StartPeriodic(times) PROVE Timing!Owner!Next
    <3>1. wait' = cur' /\ periodic' = TRUE /\ remaining' = Timing!NumLeft(times)
      BY <2>4 DEF Timing!StartPeriodic, Timing!Queue
    <3>2. times \in 1 .. Forever
      BY <1>a
    <3>3. Timing!Owed' = times
      BY <1>a, <3>1, <3>2 DEF Timing!NumLeft
    <3> QED BY <2>1, <3>3 DEF Timing!Owner!Set, Timing!Owner!Next
  <2> QED BY <1>1, <2>2, <2>3, <2>4 DEF Timing!Use
<1>2. CASE Timing!Expire \/ Timing!RequestStop \/ Timing!Stopped \/ UNCHANGED Timing!vars
  BY <1>2 DEF Timing!Expire, Timing!RequestStop, Timing!Stopped, Timing!vars
<1>3. ASSUME NEW w \in waits, Timing!HandleTimeout(w) PROVE Timing!Owner!Next \/ UNCHANGED view
  <2>1. CASE ~Timing!Current(w)
    <3>1. /\ tlevel' = IF tlevel = "STOPPING" /\ tpending - 1 = 0 THEN "STOPPED" ELSE tlevel
          /\ UNCHANGED <<cur, wait, periodic, remaining, tcalled>>
      BY <1>3, <2>1 DEF Timing!HandleTimeout, Timing!CheckShutdown
    <3>2. CASE tlevel' = tlevel
      BY <3>1, <3>2
    <3>3. CASE tlevel = "STOPPING" /\ tlevel' = "STOPPED"
      <4>1. Timing!Owed' = 0
        BY <1>b, <3>1, <3>3
      <4> QED BY <3>1, <3>3, <4>1 DEF Timing!Owner!Stopped, Timing!Owner!Next
    <3> QED BY <3>1, <3>2, <3>3
  <2>2. CASE Timing!Current(w)
    <3>1. wait = cur /\ tlevel = "RUNNING" /\ tcalled' = 1 - tcalled /\ UNCHANGED <<tlevel, periodic>>
      BY <1>b, <1>3, <2>2 DEF Timing!HandleTimeout, Timing!Current
    <3>2. Timing!Owed > 0
      BY <1>a, <1>b, <3>1
    <3>3. CASE periodic /\ remaining > 0
      <4>1. wait' = cur' /\ remaining' = Timing!NumLeft(remaining)
        BY <1>3, <2>2, <3>1, <3>3 DEF Timing!HandleTimeout, Timing!Rearm, Timing!Queue
      <4>2. Timing!Owed' = Timing!Owner!Less(Timing!Owed)
        BY <1>a, <1>b, <3>1, <3>3, <4>1 DEF Timing!NumLeft, Timing!Owner!Less
      <4> QED BY <3>1, <3>2, <4>2 DEF Timing!Owner!Fire, Timing!Owner!Next
    <3>4. CASE ~(periodic /\ remaining > 0)
      <4>1. wait' = 0 /\ cur' = cur
        BY <1>3, <2>2, <3>4 DEF Timing!HandleTimeout
      <4>2. Timing!Owed' = 0
        BY <1>a, <1>b, <4>1
      <4>3. Timing!Owed = 1
        BY <1>a, <1>b, <3>1, <3>4
      <4>4. Timing!Owner!Less(1) = 0
        BY <1>a DEF Timing!Owner!Less
      <4> QED BY <3>1, <4>2, <4>3, <4>4 DEF Timing!Owner!Fire, Timing!Owner!Next
    <3> QED BY <3>3, <3>4
  <2> QED BY <2>1, <2>2
<1>4. CASE Timing!CallbackReturns
  <2>1. /\ tlevel' = IF tlevel = "STOPPING" /\ tpending = 0 THEN "STOPPED" ELSE tlevel
        /\ UNCHANGED <<cur, wait, periodic, remaining, tcalled>>
    BY <1>4 DEF Timing!CallbackReturns, Timing!CheckShutdown
  <2>2. CASE tlevel' = tlevel
    BY <2>1, <2>2
  <2>3. CASE tlevel = "STOPPING" /\ tlevel' = "STOPPED"
    <3>1. Timing!Owed' = 0
      BY <1>b, <2>1, <2>3
    <3> QED BY <2>1, <2>3, <3>1 DEF Timing!Owner!Stopped, Timing!Owner!Next
  <2> QED BY <2>1, <2>2, <2>3
<1>5. CASE Timing!HandleStopping
  <2>1. /\ tlevel = "RUNNING" /\ tstopping /\ tlevel' \in {"STOPPING", "STOPPED"}
        /\ UNCHANGED <<cur, wait, periodic, remaining, tcalled>>
    BY <1>5 DEF Timing!HandleStopping
  <2>2. Timing!Owed' = 0
    BY <1>b, <2>1
  <2> QED BY <2>1, <2>2 DEF Timing!Owner!Stop, Timing!Owner!Stopped, Timing!Owner!Next
<1> QED BY <1>1, <1>2, <1>3, <1>4, <1>5 DEF Timing!Next

\* Without a call, only the owner's use of the timer changes what it owes.
LEMMA OwnerAloneArms ==
    TimerInv /\ [Timing!Next]_(Timing!vars)
        => (tcalled' = tcalled /\ Timing!Owed' # Timing!Owed => Timing!Use)
<1> SUFFICES ASSUME TimerInv, [Timing!Next]_(Timing!vars), tcalled' = tcalled, ~Timing!Use
             PROVE  Timing!Owed' = Timing!Owed
  OBVIOUS
<1>1. ASSUME UNCHANGED <<cur, wait, periodic, remaining>> PROVE Timing!Owed' = Timing!Owed
  BY <1>1 DEF Timing!Owed, Timing!IsRunning
<1>2. ASSUME NEW w \in waits, Timing!HandleTimeout(w) PROVE Timing!Owed' = Timing!Owed
  <2>1. tcalled \in {0, 1} /\ tcalled' # 1 - tcalled
    BY DEF TimerInv, Timing!Consistent, Timing!TypeOK
  <2> QED BY <1>1, <1>2, <2>1 DEF Timing!HandleTimeout
<1>3. CASE \/ Timing!Expire \/ Timing!CallbackReturns \/ Timing!RequestStop
           \/ Timing!HandleStopping \/ Timing!Stopped \/ UNCHANGED Timing!vars
  BY <1>1, <1>3 DEF Timing!Expire, Timing!CallbackReturns, Timing!RequestStop, Timing!HandleStopping,
         Timing!Stopped, Timing!vars, Timing!runVars
<1> QED BY <1>2, <1>3 DEF Timing!Next

\* A Timer implements the safety part of a Trigger that its owner alone arms, for any counts
\* it asks for: each call is one less of them, and no call is made that is not owed, not
\* even by a timeout that had expired before the cancel or the restart (HandleTimeout's
\* comparison of the sequence numbers).
THEOREM TimerImplementsSafety == Timing!Spec => Timing!Owner!Safety /\ Timing!OwnerArms
<1>1. Timing!Init => Timing!Owner!Init
  BY DEF Timing!Init, Timing!Owner!Init, Timing!Owed, Timing!IsRunning
<1>2. TimerInv /\ [Timing!Next]_(Timing!vars)
        => [Timing!Owner!Next]_<<Timing!Owed, tcalled, tlevel>>
  BY TimerNextRefines
<1> DEFINE A == tcalled' = tcalled /\ Timing!Owed' # Timing!Owed => Timing!Use
<1>3. TimerInv /\ [Timing!Next]_(Timing!vars) => A
  BY OwnerAloneArms
<1>4. Timing!Spec => [][A]_(Timing!vars)
  <2> HIDE DEF A
  <2> QED BY <1>3, TimerInitInv, TimerNextInv, PTL DEF Timing!Spec
<1>5. Timing!Spec => Timing!Owner!Safety
  BY <1>1, <1>2, TimerInitInv, TimerNextInv, PTL DEF Timing!Spec, Timing!Owner!Safety
<1> QED BY <1>4, <1>5 DEF Timing!OwnerArms

-----------------------------------------------------------------------------
\* ConsoleShutdown.

Frames == Signals \X {"entered", "locked", "stopping", "done"}

\* A sequence with one more in front, without its first, and with its first replaced.
LEMMA Stacks ==
    ASSUME NEW S, NEW s \in Seq(S), NEW e \in S
    PROVE  /\ <<e>> \o s \in Seq(S) /\ Len(<<e>> \o s) = Len(s) + 1 /\ (<<e>> \o s)[1] = e
           /\ \A i \in 2 .. Len(s) + 1 : (<<e>> \o s)[i] = s[i - 1]
           /\ s # <<>> =>
                 /\ Tail(s) \in Seq(S) /\ Len(Tail(s)) = Len(s) - 1
                 /\ \A i \in 1 .. Len(s) - 1 : Tail(s)[i] = s[i + 1]
                 /\ <<e>> \o Tail(s) \in Seq(S) /\ Len(<<e>> \o Tail(s)) = Len(s)
                 /\ (<<e>> \o Tail(s))[1] = e
                 /\ \A i \in 2 .. Len(s) : (<<e>> \o Tail(s))[i] = s[i]
<1>1. <<e>> \in Seq(S) /\ Len(<<e>>) = 1 /\ <<e>>[1] = e
  OBVIOUS
<1>2. ASSUME NEW t \in Seq(S)
      PROVE  /\ <<e>> \o t \in Seq(S) /\ Len(<<e>> \o t) = Len(t) + 1 /\ (<<e>> \o t)[1] = e
             /\ \A i \in 2 .. Len(t) + 1 : (<<e>> \o t)[i] = t[i - 1]
  <2>1. Len(t) \in Nat
    BY LenProperties
  <2>2. /\ <<e>> \o t \in Seq(S) /\ Len(<<e>> \o t) = 1 + Len(t)
        /\ \A i \in 1 .. 1 + Len(t) : (<<e>> \o t)[i] = IF i <= 1 THEN <<e>>[i] ELSE t[i - 1]
    BY <1>1, ConcatProperties
  <2> QED BY <1>1, <2>1, <2>2
<1>3. ASSUME s # <<>>
      PROVE  /\ Tail(s) \in Seq(S) /\ Len(Tail(s)) = Len(s) - 1 /\ Len(s) \in Nat \ {0}
             /\ \A i \in 1 .. Len(s) - 1 : Tail(s)[i] = s[i + 1]
  BY <1>3, HeadTailProperties, EmptySeq
<1>4. ASSUME s # <<>>
      PROVE  /\ <<e>> \o Tail(s) \in Seq(S) /\ Len(<<e>> \o Tail(s)) = Len(s)
             /\ (<<e>> \o Tail(s))[1] = e
             /\ \A i \in 2 .. Len(s) : (<<e>> \o Tail(s))[i] = s[i]
  <2>1. /\ <<e>> \o Tail(s) \in Seq(S) /\ Len(<<e>> \o Tail(s)) = Len(Tail(s)) + 1
        /\ (<<e>> \o Tail(s))[1] = e
        /\ \A i \in 2 .. Len(Tail(s)) + 1 : (<<e>> \o Tail(s))[i] = Tail(s)[i - 1]
    BY <1>2, <1>3, <1>4
  <2> QED BY <1>3, <1>4, <2>1
<1> QED BY <1>2, <1>3, <1>4

\* A signal handler past its lock holds the mutex, and so does the main thread in the
\* constructor and the destructor.
MutexHeld ==
    /\ \A t \in Console!Threads : \A i \in 1 .. Len(frames[t]) :
          frames[t][i][2] # "entered" => mutex = <<t, Len(frames[t]) - i + 1>>
    /\ pc \in {"constructing", "destructing"} => mutex = <<Main, 0>>

\* The pointer points to a live service, and so does that of a handler that uses it.
LiveWhileUsed ==
    /\ pointer => alive
    /\ pc = "destructing" => ~pointer
    /\ \A t \in Console!Threads : \A i \in 1 .. Len(frames[t]) :
          frames[t][i][2] = "stopping" => alive

\* The mutex is held by nobody, by the main thread's own code or by a frame.
Holders ==
    \/ mutex = <<>> \/ mutex = <<Main, 0>>
    \/ \E t \in Console!Threads : \E d \in 1 .. Len(frames[t]) : mutex = <<t, d>>

ConsoleInv ==
    /\ pc \in {"start", "constructing", "run", "destructing", "end"}
    /\ pointer \in BOOLEAN /\ alive \in BOOLEAN /\ installed \in BOOLEAN
    /\ root \in {"CONSTRUCTED", "STARTING", "RUNNING", "STOPPING", "STOPPED"}
    /\ local \in {"CONSTRUCTED", "RUNNING", "STOPPED"}
    /\ frames \in [Console!Threads -> Seq(Frames)]
    /\ sent \in 0 .. MaxSignals /\ aborted \in BOOLEAN
    /\ Holders /\ MutexHeld /\ LiveWhileUsed

\* It implies the invariant.
LEMMA ConsoleInvImplies == ConsoleInv => Console!Consistent
<1> SUFFICES ASSUME ConsoleInv PROVE Console!Consistent
  OBVIOUS
<1>1. ASSUME NEW t \in Console!Threads
      PROVE  /\ frames[t] \in Seq(Frames) /\ DOMAIN frames[t] = 1 .. Len(frames[t])
             /\ \A i \in DOMAIN frames[t] : frames[t][i] \in Frames
             /\ frames[t] # <<>> => Head(frames[t]) = frames[t][1] /\ 1 \in 1 .. Len(frames[t])
  <2>1. frames[t] \in Seq(Frames)
    BY <1>1 DEF ConsoleInv
  <2> QED BY <2>1, LenProperties, ElementOfSeq, EmptySeq
<1>2. mutex \in {Console!Nobody, <<Main, 0>>}
               \cup UNION {{t} \X (1 .. Console!Depth(t)) : t \in Console!Threads}
  BY DEF ConsoleInv, Holders, Console!Nobody, Console!Depth
<1>3. Console!TypeOK
  BY <1>1, <1>2 DEF ConsoleInv, Console!TypeOK, Frames
<1>4. Console!UsesLiveService
  BY <1>1 DEF ConsoleInv, LiveWhileUsed, Console!UsesLiveService, Console!Top
<1> QED BY <1>3, <1>4 DEF Console!Consistent

\* The initial state satisfies it.
LEMMA ConsoleInitInv == Console!Init => ConsoleInv
<1> SUFFICES ASSUME Console!Init PROVE ConsoleInv
  OBVIOUS
<1> USE DEF Console!Init
<1>1. frames \in [Console!Threads -> Seq(Frames)]
  OBVIOUS
<1>2. \A t \in Console!Threads : Len(frames[t]) = 0
  OBVIOUS
<1>3. 0 \in 0 .. MaxSignals
  BY MCSchedulersAssumption DEF MCSchedulersAssumption, Console!ConsoleAssumption
<1>4. Holders /\ MutexHeld /\ LiveWhileUsed
  BY <1>2 DEF Holders, MutexHeld, LiveWhileUsed, Console!Nobody
<1> QED BY <1>1, <1>3, <1>4 DEF ConsoleInv

\* A signal handler whose innermost frame moves on, with the mutex taken from nobody or
\* kept, keeps what is known of the frames and the mutex.
LEMMA Moving ==
    ASSUME ConsoleInv, NEW t \in Console!Threads, frames[t] # <<>>,
           NEW to \in {"locked", "stopping", "done"}, Console!Goto(t, to),
           \/ mutex = <<>> /\ mutex' = <<t, Len(frames[t])>>
           \/ frames[t][1][2] # "entered" /\ mutex' = mutex,
           UNCHANGED <<pc, pointer, alive>>, to = "stopping" => alive
    PROVE  /\ frames' \in [Console!Threads -> Seq(Frames)]
           /\ Holders' /\ MutexHeld' /\ LiveWhileUsed'
<1> DEFINE s == frames[t]
           e == <<Head(s)[1], to>>
<1>1. /\ \A u \in Console!Threads : frames[u] \in Seq(Frames) /\ Len(frames[u]) \in Nat
      /\ frames \in [Console!Threads -> Seq(Frames)]
  BY LenProperties DEF ConsoleInv
<1>2. Len(s) \in Nat \ {0} /\ Head(s) \in Frames /\ Head(s) = s[1]
  BY <1>1, EmptySeq, HeadTailProperties
<1>3. e \in Frames /\ e[2] = to
  BY <1>2 DEF Frames
<1>4. frames' = [frames EXCEPT ![t] = <<e>> \o Tail(s)]
  BY DEF Console!Goto
<1> HIDE DEF e
<1>5. /\ frames'[t] \in Seq(Frames) /\ Len(frames'[t]) = Len(s) /\ frames'[t][1] = e
      /\ \A i \in 2 .. Len(s) : frames'[t][i] = s[i]
  BY <1>1, <1>3, <1>4, Stacks
<1>6. \A u \in Console!Threads : u # t => frames'[u] = frames[u]
  BY <1>1, <1>4
<1>7. frames' \in [Console!Threads -> Seq(Frames)]
  BY <1>1, <1>4, <1>5
<1>8. mutex' = <<t, Len(s)>>
  BY <1>2 DEF ConsoleInv, MutexHeld
<1>9. Holders'
  BY <1>2, <1>5, <1>8 DEF Holders
<1>10. ASSUME NEW u \in Console!Threads, NEW i \in 1 .. Len(frames'[u]),
              frames'[u][i][2] # "entered"
       PROVE  u = t /\ i = 1
  <2>1. CASE u = t /\ i # 1
    <3>1. i \in 1 .. Len(s) /\ s[i][2] # "entered"
      BY <1>2, <1>5, <1>10, <2>1
    <3>2. mutex = <<t, Len(s) - i + 1>>
      BY <3>1 DEF ConsoleInv, MutexHeld
    <3>3. Len(s) - i + 1 # Len(s)
      BY <1>2, <2>1, <3>1
    <3>4. mutex = <<t, Len(s)>>
      BY <1>8, <3>2
    <3> QED BY <3>2, <3>3, <3>4
  <2>2. CASE u # t
    <3>1. i \in 1 .. Len(frames[u]) /\ frames[u][i][2] # "entered"
      BY <1>6, <1>10, <2>2
    <3>2. mutex = <<u, Len(frames[u]) - i + 1>>
      BY <3>1 DEF ConsoleInv, MutexHeld
    <3>3. mutex = <<t, Len(s)>>
      BY <1>8, <3>2
    <3> QED BY <2>2, <3>2, <3>3
  <2> QED BY <2>1, <2>2
<1>11. MutexHeld'
  <2>1. pc' \notin {"constructing", "destructing"}
    <3>1. mutex # <<Main, 0>>
      BY <1>2, <1>8
    <3> QED BY <3>1 DEF ConsoleInv, MutexHeld
  <2> QED BY <1>2, <1>5, <1>8, <1>10, <2>1 DEF MutexHeld
<1>12. LiveWhileUsed'
  BY <1>3, <1>5, <1>10 DEF ConsoleInv, LiveWhileUsed
<1> QED BY <1>7, <1>9, <1>11, <1>12

\* Every step of the main thread and of the signal handlers keeps it.
LEMMA ConsoleNextInv == ConsoleInv /\ [Console!Next]_(Console!vars) => ConsoleInv'
<1> SUFFICES ASSUME ConsoleInv, [Console!Next]_(Console!vars) PROVE ConsoleInv'
  OBVIOUS
<1> USE DEF Console!svc, Console!levels, Console!Nobody, Console!Depth, Console!MainRuns
<1>a. /\ \A u \in Console!Threads : frames[u] \in Seq(Frames) /\ Len(frames[u]) \in Nat
      /\ frames \in [Console!Threads -> Seq(Frames)]
  BY LenProperties DEF ConsoleInv
\* While the main thread has the mutex, or nobody, all handlers wait for it.
<1>b. ASSUME mutex = <<>> \/ mutex = <<Main, 0>>,
             NEW u \in Console!Threads, NEW i \in 1 .. Len(frames[u])
      PROVE  frames[u][i][2] = "entered"
  <2>1. Len(frames[u]) - i + 1 # 0
    BY <1>a
  <2>2. frames[u][i][2] # "entered" => mutex = <<u, Len(frames[u]) - i + 1>>
    BY DEF ConsoleInv, MutexHeld
  <2>3. <<u, Len(frames[u]) - i + 1>> # <<Main, 0>> /\ <<u, Len(frames[u]) - i + 1>> # <<>>
    BY <2>1
  <2> QED BY <1>b, <2>2, <2>3
<1>1. CASE Console!Construct
  BY <1>1, <1>b DEF Console!Construct, ConsoleInv, Holders, MutexHeld, LiveWhileUsed
<1>2. CASE Console!Constructed
  BY <1>2, <1>b DEF Console!Constructed, ConsoleInv, Holders, MutexHeld, LiveWhileUsed
<1>3. CASE Console!Handle
  BY <1>3 DEF Console!Handle, ConsoleInv, Holders, MutexHeld, LiveWhileUsed
<1>4. CASE Console!Destruct
  BY <1>4, <1>b DEF Console!Destruct, ConsoleInv, Holders, MutexHeld, LiveWhileUsed
<1>5. CASE Console!Destructed
  BY <1>5, <1>b DEF Console!Destructed, ConsoleInv, Holders, MutexHeld, LiveWhileUsed
<1>6. ASSUME NEW t \in Console!Threads, NEW s \in Signals, Console!Signal(t, s) PROVE ConsoleInv'
  <2> DEFINE e == <<s, "entered">>
  <2>1. e \in Frames
    BY DEF Frames
  <2>2. /\ frames' = [frames EXCEPT ![t] = <<e>> \o frames[t]]
        /\ sent' = sent + 1 /\ sent < MaxSignals
        /\ UNCHANGED <<pc, pointer, alive, installed, root, local, mutex, aborted>>
    BY <1>6 DEF Console!Signal
  <2>3. e[2] = "entered"
    OBVIOUS
  <2> HIDE DEF e
  <2>4. /\ frames'[t] \in Seq(Frames) /\ Len(frames'[t]) = Len(frames[t]) + 1 /\ frames'[t][1] = e
        /\ \A i \in 2 .. Len(frames[t]) + 1 : frames'[t][i] = frames[t][i - 1]
    BY <1>a, <2>1, <2>2, Stacks
  <2>5. \A u \in Console!Threads : u # t => frames'[u] = frames[u]
    BY <1>a, <2>2
  <2>6. frames' \in [Console!Threads -> Seq(Frames)] /\ sent' \in 0 .. MaxSignals
    <3>1. sent' \in 0 .. MaxSignals
      BY <2>2, MCSchedulersAssumption
      DEF MCSchedulersAssumption, Console!ConsoleAssumption, ConsoleInv
    <3> QED BY <1>a, <2>2, <2>4, <3>1
  <2>7. Holders'
    <3>1. CASE mutex \in {<<>>, <<Main, 0>>}
      BY <2>2, <3>1 DEF Holders
    <3>2. ASSUME NEW u \in Console!Threads, NEW d \in 1 .. Len(frames[u]), mutex = <<u, d>> PROVE Holders'
      <4>1. d \in 1 .. Len(frames'[u])
        BY <1>a, <2>4, <2>5
      <4> QED BY <2>2, <3>2, <4>1 DEF Holders
    <3> QED BY <3>1, <3>2 DEF ConsoleInv, Holders
  <2>8. ASSUME NEW u \in Console!Threads, NEW i \in 1 .. Len(frames'[u]),
               frames'[u][i][2] # "entered"
        PROVE  \E j \in 1 .. Len(frames[u]) :
                  /\ frames[u][j] = frames'[u][i]
                  /\ Len(frames[u]) - j = Len(frames'[u]) - i
    <3>1. CASE u # t
      BY <2>5, <2>8, <3>1
    <3>2. CASE u = t
      <4>1. i # 1
        BY <2>3, <2>4, <2>8, <3>2
      <4>2. i - 1 \in 1 .. Len(frames[t]) /\ i \in 2 .. Len(frames[t]) + 1
        BY <1>a, <2>4, <3>2, <4>1
      <4>3. frames[t][i - 1] = frames'[t][i] /\ Len(frames[t]) - (i - 1) = Len(frames'[t]) - i
        BY <1>a, <2>4, <4>2
      <4> QED BY <3>2, <4>2, <4>3
    <3> QED BY <3>1, <3>2
  <2>9. MutexHeld'
    <3>1. ASSUME NEW u \in Console!Threads, NEW i \in 1 .. Len(frames'[u]),
                 frames'[u][i][2] # "entered"
          PROVE  mutex' = <<u, Len(frames'[u]) - i + 1>>
      <4>1. PICK j \in 1 .. Len(frames[u]) :
                    frames[u][j] = frames'[u][i] /\ Len(frames[u]) - j = Len(frames'[u]) - i
        BY <2>8, <3>1
      <4>2. mutex = <<u, Len(frames[u]) - j + 1>>
        BY <3>1, <4>1 DEF ConsoleInv, MutexHeld
      <4> QED BY <2>2, <4>1, <4>2
    <3> QED BY <2>2, <3>1 DEF ConsoleInv, MutexHeld
  <2>10. LiveWhileUsed'
    <3>1. ASSUME NEW u \in Console!Threads, NEW i \in 1 .. Len(frames'[u]),
                 frames'[u][i][2] = "stopping"
          PROVE  alive'
      <4>1. PICK j \in 1 .. Len(frames[u]) : frames[u][j] = frames'[u][i]
        BY <2>8, <3>1
      <4> QED BY <2>2, <3>1, <4>1 DEF ConsoleInv, LiveWhileUsed
    <3> QED BY <2>2, <3>1 DEF ConsoleInv, LiveWhileUsed
  <2> QED BY <2>2, <2>6, <2>7, <2>9, <2>10 DEF ConsoleInv
<1>7. ASSUME NEW t \in Console!Threads, NEW where, Console!Top(t, where)
      PROVE  frames[t] # <<>> /\ frames[t][1][2] = where /\ 1 \in 1 .. Len(frames[t])
  BY <1>a, <1>7, EmptySeq, HeadTailProperties DEF Console!Top
<1>8. ASSUME NEW t \in Console!Threads, Console!Lock(t) PROVE ConsoleInv'
  <2>1. /\ Console!Top(t, "entered") /\ mutex = <<>> /\ mutex' = <<t, Len(frames[t])>>
        /\ Console!Goto(t, "locked")
        /\ UNCHANGED <<pc, pointer, alive, installed, root, local, sent, aborted>>
    BY <1>8 DEF Console!Lock
  <2>2. /\ frames' \in [Console!Threads -> Seq(Frames)]
        /\ Holders' /\ MutexHeld' /\ LiveWhileUsed'
    BY <1>7, <2>1, Moving
  <2> QED BY <2>1, <2>2 DEF ConsoleInv
<1>9. ASSUME NEW t \in Console!Threads, Console!Check(t) PROVE ConsoleInv'
  <2> DEFINE to == IF pointer /\ local = "RUNNING" THEN "stopping" ELSE "done"
  <2>1. /\ Console!Top(t, "locked") /\ Console!Goto(t, to)
        /\ UNCHANGED <<pc, pointer, alive, installed, root, local, mutex, sent, aborted>>
    BY <1>9 DEF Console!Check
  <2>2. to \in {"locked", "stopping", "done"} /\ (to = "stopping" => alive)
    BY DEF ConsoleInv, LiveWhileUsed
  <2> HIDE DEF to
  <2>3. /\ frames' \in [Console!Threads -> Seq(Frames)]
        /\ Holders' /\ MutexHeld' /\ LiveWhileUsed'
    BY <1>7, <2>1, <2>2, Moving
  <2> QED BY <2>1, <2>3 DEF ConsoleInv
<1>10. ASSUME NEW t \in Console!Threads, Console!RequestStop(t) PROVE ConsoleInv'
  <2>1. /\ Console!Top(t, "stopping") /\ Console!Goto(t, "done")
        /\ root' \in {"STOPPING", root} /\ aborted' \in BOOLEAN
        /\ UNCHANGED <<pc, pointer, alive, installed, local, mutex, sent>>
    BY <1>10 DEF Console!RequestStop
  <2>2. /\ frames' \in [Console!Threads -> Seq(Frames)]
        /\ Holders' /\ MutexHeld' /\ LiveWhileUsed'
    BY <1>7, <2>1, Moving
  <2> QED BY <2>1, <2>2 DEF ConsoleInv
<1>11. ASSUME NEW t \in Console!Threads, Console!Return(t) PROVE ConsoleInv'
  <2>1. /\ Console!Top(t, "done") /\ mutex' = <<>>
        /\ frames' = [frames EXCEPT ![t] = Tail(frames[t])]
        /\ UNCHANGED <<pc, pointer, alive, installed, root, local, sent, aborted>>
    BY <1>11 DEF Console!Return
  <2>2. /\ frames[t] # <<>> /\ frames[t][1][2] = "done" /\ 1 \in 1 .. Len(frames[t])
    BY <1>7, <2>1
  <2>3. /\ frames'[t] \in Seq(Frames) /\ Len(frames'[t]) = Len(frames[t]) - 1
        /\ \A i \in 1 .. Len(frames[t]) - 1 : frames'[t][i] = frames[t][i + 1]
    BY <1>a, <2>1, <2>2, HeadTailProperties
  <2>4. \A u \in Console!Threads : u # t => frames'[u] = frames[u]
    BY <1>a, <2>1
  <2>5. frames' \in [Console!Threads -> Seq(Frames)]
    BY <1>a, <2>1, <2>3
  <2>6. mutex = <<t, Len(frames[t]) - 1 + 1>>
    BY <2>2 DEF ConsoleInv, MutexHeld
  <2>7. ASSUME NEW u \in Console!Threads, NEW i \in 1 .. Len(frames'[u])
        PROVE  frames'[u][i][2] = "entered"
    <3>1. CASE u # t
      <4>1. i \in 1 .. Len(frames[u]) /\ frames'[u][i] = frames[u][i]
        BY <2>4, <3>1
      <4>2. frames[u][i][2] # "entered" => mutex = <<u, Len(frames[u]) - i + 1>>
        BY <4>1 DEF ConsoleInv, MutexHeld
      <4> QED BY <2>6, <3>1, <4>1, <4>2
    <3>2. CASE u = t
      <4>1. i + 1 \in 1 .. Len(frames[t]) /\ frames'[t][i] = frames[t][i + 1]
        BY <1>a, <2>3, <3>2
      <4>2. frames[t][i + 1][2] # "entered" => mutex = <<t, Len(frames[t]) - (i + 1) + 1>>
        BY <4>1 DEF ConsoleInv, MutexHeld
      <4>3. Len(frames[t]) - (i + 1) + 1 # Len(frames[t]) - 1 + 1
        BY <1>a, <4>1
      <4> QED BY <2>6, <3>2, <4>1, <4>2, <4>3
    <3> QED BY <3>1, <3>2
  <2>8. Holders'
    BY <2>1 DEF Holders
  <2>9. MutexHeld' /\ LiveWhileUsed'
    <3>1. pc' \notin {"constructing", "destructing"}
      <4>1. mutex # <<Main, 0>>
        BY <1>a, <2>2, <2>6
      <4> QED BY <2>1, <4>1 DEF ConsoleInv, MutexHeld
    <3> QED BY <2>1, <2>7, <3>1 DEF ConsoleInv, MutexHeld, LiveWhileUsed
  <2> QED BY <2>1, <2>5, <2>8, <2>9 DEF ConsoleInv
<1>12. CASE UNCHANGED Console!vars
  BY <1>12 DEF Console!vars, ConsoleInv, Holders, MutexHeld, LiveWhileUsed
<1> QED BY <1>1, <1>2, <1>3, <1>4, <1>5, <1>6, <1>8, <1>9, <1>10, <1>11, <1>12
     DEF Console!Next, Console!MainStep, Console!SignalStep, Console!Idle

\* However signals nest and whichever threads they interrupt, the mutex is held by the
\* frame that took it, and a signal handler that uses the service uses one that lives.
THEOREM ConsoleStaysConsistent == Console!Spec => []Console!Consistent
  BY ConsoleInitInv, ConsoleNextInv, ConsoleInvImplies, PTL DEF Console!Spec

-----------------------------------------------------------------------------
\* ThreadPool.

\* A sequence's head and tail, alone and with another sequence behind it.
LEMMA HeadAndTail ==
    ASSUME NEW S, NEW s \in Seq(S), NEW t \in Seq(S), s # <<>>
    PROVE  /\ Head(s) \in S /\ Tail(s) \in Seq(S) /\ <<Head(s)>> \o Tail(s) = s
           /\ s \o t # <<>> /\ Head(s \o t) = Head(s) /\ Tail(s \o t) = Tail(s) \o t
<1>1. /\ Len(s) \in Nat \ {0} /\ Len(t) \in Nat /\ Head(s) = s[1] /\ Head(s) \in S
      /\ Tail(s) \in Seq(S) /\ Len(Tail(s)) = Len(s) - 1
      /\ \A i \in 1 .. Len(s) - 1 : Tail(s)[i] = s[i + 1]
  BY HeadTailProperties, EmptySeq, LenProperties
<1>2. /\ <<Head(s)>> \o Tail(s) \in Seq(S) /\ Len(<<Head(s)>> \o Tail(s)) = Len(s)
      /\ (<<Head(s)>> \o Tail(s))[1] = Head(s)
      /\ \A i \in 2 .. Len(s) : (<<Head(s)>> \o Tail(s))[i] = s[i]
  BY <1>1, Stacks
<1>3. <<Head(s)>> \o Tail(s) = s
  <2>1. \A i \in 1 .. Len(s) : (<<Head(s)>> \o Tail(s))[i] = s[i]
    BY <1>1, <1>2
  <2> QED BY <1>2, <2>1, SeqEqual
<1>4. /\ s \o t \in Seq(S) /\ Len(s \o t) = Len(s) + Len(t)
      /\ \A i \in 1 .. Len(s) + Len(t) : (s \o t)[i] = IF i <= Len(s) THEN s[i] ELSE t[i - Len(s)]
  BY ConcatProperties
<1>5. s \o t # <<>>
  BY <1>1, ConcatEqualIffEmpty
<1>6. Head(s \o t) = Head(s)
  BY <1>1, <1>4, <1>5
<1>7. /\ Tail(s \o t) \in Seq(S) /\ Len(Tail(s \o t)) = Len(s) + Len(t) - 1
      /\ \A i \in 1 .. Len(s) + Len(t) - 1 : Tail(s \o t)[i] = (s \o t)[i + 1]
  BY <1>4, <1>5, HeadTailProperties
<1>8. /\ Tail(s) \o t \in Seq(S) /\ Len(Tail(s) \o t) = Len(s) - 1 + Len(t)
      /\ \A i \in 1 .. Len(s) - 1 + Len(t) :
            (Tail(s) \o t)[i] = IF i <= Len(s) - 1 THEN Tail(s)[i] ELSE t[i - (Len(s) - 1)]
  BY <1>1, ConcatProperties
<1>9. Tail(s \o t) = Tail(s) \o t
  <2>1. \A i \in 1 .. Len(s) + Len(t) - 1 : Tail(s \o t)[i] = (Tail(s) \o t)[i]
    BY <1>1, <1>4, <1>7, <1>8
  <2>2. Len(Tail(s \o t)) = Len(Tail(s) \o t)
    BY <1>1, <1>7, <1>8
  <2> QED BY <1>7, <1>8, <2>1, <2>2, SeqEqual
<1> QED BY <1>1, <1>3, <1>5, <1>6, <1>9

Positions(r, s) == {i \in 1 .. Len(s) : s[i] = r}

\* The number of a reference's items in a sequence, which is 0 where it has none.
LEMMA Numbered ==
    ASSUME NEW S, NEW s \in Seq(S), NEW r
    PROVE  /\ IsFiniteSet(Positions(r, s)) /\ Cardinality(Positions(r, s)) \in Nat
           /\ Pool!NumberOf(r, s) = Cardinality(Positions(r, s))
           /\ Pool!NumberOf(r, s) = 0 <=> \A i \in 1 .. Len(s) : s[i] # r
<1>1. Len(s) \in Nat /\ DOMAIN s = 1 .. Len(s)
  BY LenProperties
<1>2. IsFiniteSet(1 .. Len(s))
  BY <1>1, FS_Interval
<1>3. IsFiniteSet(Positions(r, s)) /\ Cardinality(Positions(r, s)) \in Nat
  BY <1>2, FS_Subset, FS_CardinalityType DEF Positions
<1>4. Pool!NumberOf(r, s) = Pool!Cardinality(Positions(r, s))
  BY <1>1 DEF Pool!NumberOf, Positions
<1>5. Pool!Cardinality(Positions(r, s)) = Cardinality(Positions(r, s))
  BY DEF Pool!Cardinality, Cardinality
<1>6. Cardinality(Positions(r, s)) = 0 <=> Positions(r, s) = {}
  BY <1>3, FS_EmptySet
<1> QED BY <1>3, <1>4, <1>5, <1>6 DEF Positions

\* There are none in an empty sequence.
LEMMA NothingNumbered == ASSUME NEW r PROVE Pool!NumberOf(r, <<>>) = 0
<1>1. PICK s : s = <<>>
  OBVIOUS
<1>2. s \in Seq({}) /\ Len(s) = 0
  BY <1>1
<1>3. \A i \in 1 .. Len(s) : s[i] # r
  BY <1>2
<1> QED BY <1>1, <1>2, <1>3, Numbered

\* One item more behind.
LEMMA NumberedMore ==
    ASSUME NEW S, NEW s \in Seq(S), NEW r, NEW e \in S
    PROVE  Pool!NumberOf(r, s \o <<e>>) = Pool!NumberOf(r, s) + (IF e = r THEN 1 ELSE 0)
<1>1. /\ s \o <<e>> \in Seq(S) /\ Len(s \o <<e>>) = Len(s) + 1 /\ Len(s) \in Nat
      /\ \A i \in 1 .. Len(s) + 1 : (s \o <<e>>)[i] = IF i <= Len(s) THEN s[i] ELSE e
  <2>1. <<e>> \in Seq(S) /\ Len(<<e>>) = 1 /\ <<e>>[1] = e /\ Len(s) \in Nat
    BY LenProperties
  <2>2. /\ s \o <<e>> \in Seq(S) /\ Len(s \o <<e>>) = Len(s) + 1
        /\ \A i \in 1 .. Len(s) + 1 :
              (s \o <<e>>)[i] = IF i <= Len(s) THEN s[i] ELSE <<e>>[i - Len(s)]
    BY <2>1, ConcatProperties
  <2>3. \A i \in 1 .. Len(s) + 1 : ~(i <= Len(s)) => i - Len(s) = 1
    BY <2>1
  <2> QED BY <2>1, <2>2, <2>3
<1>2. /\ IsFiniteSet(Positions(r, s)) /\ Cardinality(Positions(r, s)) \in Nat
      /\ Pool!NumberOf(r, s) = Cardinality(Positions(r, s))
      /\ Pool!NumberOf(r, s \o <<e>>) = Cardinality(Positions(r, s \o <<e>>))
  BY <1>1, Numbered
<1>3. CASE e = r
  <2>1. Positions(r, s \o <<e>>) = Positions(r, s) \cup {Len(s) + 1}
    BY <1>1, <1>3 DEF Positions
  <2>2. Len(s) + 1 \notin Positions(r, s)
    BY <1>1 DEF Positions
  <2>3. Cardinality(Positions(r, s \o <<e>>)) = Cardinality(Positions(r, s)) + 1
    BY <1>2, <2>1, <2>2, FS_AddElement
  <2> QED BY <1>2, <1>3, <2>3
<1>4. CASE e # r
  <2>1. Positions(r, s \o <<e>>) = Positions(r, s)
    BY <1>1, <1>4 DEF Positions
  <2> QED BY <1>2, <1>4, <2>1
<1> QED BY <1>3, <1>4

\* One item fewer when the first one is taken away.
LEMMA NumberedTail ==
    ASSUME NEW S, NEW s \in Seq(S), NEW r, s # <<>>
    PROVE  Pool!NumberOf(r, Tail(s)) = Pool!NumberOf(r, s) - (IF Head(s) = r THEN 1 ELSE 0)
<1>1. /\ Len(s) \in Nat \ {0} /\ Head(s) = s[1] /\ Head(s) \in S
      /\ Tail(s) \in Seq(S) /\ Len(Tail(s)) = Len(s) - 1
      /\ \A i \in 1 .. Len(s) - 1 : Tail(s)[i] = s[i + 1]
  BY HeadTailProperties, EmptySeq
<1> DEFINE P == Positions(r, Tail(s))
           Q == Positions(r, s) \ {1}
           f == [i \in P |-> i + 1]
<1>2. IsFiniteSet(P) /\ Pool!NumberOf(r, Tail(s)) = Cardinality(P)
  BY <1>1, Numbered
<1>3. /\ IsFiniteSet(Positions(r, s)) /\ Pool!NumberOf(r, s) = Cardinality(Positions(r, s))
      /\ Cardinality(Positions(r, s)) \in Nat
  BY Numbered
<1>4. f \in Surjection(P, Q) /\ f \in Injection(P, Q)
  <2>1. \A i \in P : i \in 1 .. Len(s) - 1 /\ i + 1 \in Q
    BY <1>1 DEF Positions
  <2>2. \A j \in Q : j - 1 \in P /\ j \in Nat
    BY <1>1 DEF Positions
  <2>3. f \in [P -> Q] /\ DOMAIN f = P
    BY <2>1
  <2>4. \A i, j \in P : f[i] = f[j] => i = j
    BY <1>1, <2>1
  <2>5. \A j \in Q : \E i \in P : f[i] = j
    BY <1>1, <2>2
  <2> HIDE DEF f, P, Q
  <2> QED BY <2>3, <2>4, <2>5 DEF Surjection, Injection, IsInjective
<1>5. Cardinality(Q) = Cardinality(P)
  BY <1>2, <1>4, FS_Surjection
<1>6. Cardinality(Q) = Cardinality(Positions(r, s)) - (IF Head(s) = r THEN 1 ELSE 0)
  <2>1. 1 \in Positions(r, s) <=> Head(s) = r
    BY <1>1 DEF Positions
  <2>2. Cardinality(Q) = IF 1 \in Positions(r, s) THEN Cardinality(Positions(r, s)) - 1
                         ELSE Cardinality(Positions(r, s))
    BY <1>3, FS_RemoveElement
  <2> QED BY <1>3, <2>1, <2>2
<1> QED BY <1>2, <1>3, <1>5, <1>6

\* What is on its way through the pool: nothing once it is told to finish.
OnItsWay == IF finished THEN <<>> ELSE pposted \o entry \o queue

PoolTyped ==
    /\ plevel \in [Refs -> Pool!Levels] /\ pstopping \subseteq Refs
    /\ items \in [Refs -> 0 .. MaxItems] /\ pool \in Pool!Levels
    /\ queue \in Seq(Refs) /\ entry \in Seq(Refs) /\ pposted \in Seq(Pool!Posts)
    /\ finished \in BOOLEAN /\ progress \in Nat
    /\ thread \in {"looking", "waiting", "running", "counting", "leaving", "exiting", "exited"}

\* The thread holds an item while it runs one, and it leaves when the pool is told to
\* finish, which is after every reference has stopped: what it posts then is all there is.
ThreadKnown ==
    /\ IF thread = "running" THEN Len(entry) = 1 ELSE entry = <<>>
    /\ ~finished => /\ pool = "RUNNING" /\ pposted \in Seq(Refs)
                    /\ thread \notin {"leaving", "exiting", "exited"}
    /\ finished => /\ pool # "RUNNING" /\ queue = <<>> /\ entry = <<>>
                   /\ \A r \in Refs : plevel[r] = "STOPPED"
                   /\ pool = "STOPPED" => thread = "exited"
                   /\ pposted = IF thread \in {"exiting", "exited"} /\ pool = "STOPPING"
                                THEN <<"threadCompleted">> ELSE <<>>

\* Both threads count what is on its way.
WorkCounted ==
    /\ \A r \in Refs : /\ items[r] = Pool!NumberOf(r, OnItsWay)
                       /\ plevel[r] = "STOPPED" => items[r] = 0
    /\ progress = Len(queue) + (IF thread \in {"running", "counting"} THEN 1 ELSE 0)

PoolInv == PoolTyped /\ ThreadKnown /\ WorkCounted

\* The model's Outstanding, which leaves out the thread's own completion, is that.
LEMMA OutstandingIs == ASSUME PoolInv PROVE Pool!Outstanding = OnItsWay /\ OnItsWay \in Seq(Refs)
<1>1. CASE finished
  <2>1. entry = <<>> /\ queue = <<>> /\ pposted \in {<<>>, <<"threadCompleted">>}
    BY <1>1 DEF PoolInv, ThreadKnown
  <2>2. Pool!Completions = <<>>
    <3>1. CASE pposted = <<>>
      BY <3>1 DEF Pool!Completions
    <3>2. CASE pposted = <<"threadCompleted">>
      <4>1. Pool!Front(pposted) = <<>>
        BY <3>2, SubSeqEmpty DEF Pool!Front
      <4>2. Pool!Last(pposted) = "threadCompleted" /\ pposted # <<>>
        BY <3>2 DEF Pool!Last
      <4> QED BY <4>1, <4>2 DEF Pool!Completions
    <3> QED BY <2>1, <3>1, <3>2
  <2> QED BY <1>1, <2>1, <2>2, ConcatEmptySeq DEF Pool!Outstanding, OnItsWay
<1>2. CASE ~finished
  <2>1. pposted \in Seq(Refs) /\ entry \in Seq(Refs) /\ queue \in Seq(Refs)
    BY <1>2 DEF PoolInv, PoolTyped, ThreadKnown
  <2>2. Pool!Completions = pposted
    <3>1. ASSUME pposted # <<>> PROVE Pool!Last(pposted) \in Refs
      <4>1. Len(pposted) \in 1 .. Len(pposted)
        BY <2>1, <3>1, EmptySeq
      <4> QED BY <2>1, <4>1, ElementOfSeq DEF Pool!Last
    <3> QED BY <3>1, MCSchedulersAssumption
        DEF MCSchedulersAssumption, Pool!ThreadPoolAssumption, Pool!Completions
  <2> QED BY <1>2, <2>1, <2>2, ConcatProperties DEF Pool!Outstanding, OnItsWay
<1> QED BY <1>1, <1>2

\* It implies the invariant.
LEMMA PoolInvImplies == PoolInv => Pool!Consistent
<1> SUFFICES ASSUME PoolInv PROVE Pool!Consistent
  OBVIOUS
<1>1. /\ DOMAIN queue = 1 .. Len(queue) /\ DOMAIN entry = 1 .. Len(entry)
      /\ DOMAIN pposted = 1 .. Len(pposted)
      /\ \A i \in 1 .. Len(queue) : queue[i] \in Refs
      /\ \A i \in 1 .. Len(entry) : entry[i] \in Refs
      /\ \A i \in 1 .. Len(pposted) : pposted[i] \in Pool!Posts
  BY LenProperties, ElementOfSeq DEF PoolInv, PoolTyped
<1>2. Len(entry) <= 1
  <2>1. CASE thread = "running"
    <3>1. Len(entry) = 1
      BY <2>1 DEF PoolInv, ThreadKnown
    <3> QED BY <3>1
  <2>2. CASE thread # "running"
    <3>1. entry = <<>>
      BY <2>2 DEF PoolInv, ThreadKnown
    <3>2. Len(<<>>) = 0
      OBVIOUS
    <3> QED BY <3>1, <3>2
  <2> QED BY <2>1, <2>2
<1>3. Pool!TypeOK
  BY <1>1, <1>2 DEF PoolInv, PoolTyped, Pool!TypeOK
<1>4. Pool!ItemsCounted
  BY OutstandingIs DEF PoolInv, WorkCounted, Pool!ItemsCounted
<1>5. Pool!NothingAfterFinished
  BY DEF PoolInv, PoolTyped, ThreadKnown, Pool!NothingAfterFinished, Pool!Levels
<1> QED BY <1>3, <1>4, <1>5 DEF Pool!Consistent

\* The initial state satisfies it.
LEMMA PoolInitInv == Pool!Init => PoolInv
<1> SUFFICES ASSUME Pool!Init PROVE PoolInv
  OBVIOUS
<1> USE DEF Pool!Init
<1>1. 0 \in 0 .. MaxItems
  BY MCSchedulersAssumption DEF MCSchedulersAssumption, Pool!ThreadPoolAssumption
<1>2. PoolTyped /\ ThreadKnown
  <2>1. queue \in Seq(Refs) /\ entry \in Seq(Refs) /\ pposted \in Seq(Pool!Posts) /\ pposted \in Seq(Refs)
    OBVIOUS
  <2>2. plevel \in [Refs -> Pool!Levels] /\ items \in [Refs -> 0 .. MaxItems] /\ pool \in Pool!Levels
    BY <1>1 DEF Pool!Levels
  <2>3. PoolTyped
    BY <2>1, <2>2 DEF PoolTyped
  <2>4. ThreadKnown
    BY <2>1 DEF ThreadKnown
  <2> QED BY <2>3, <2>4
<1>3. OnItsWay = <<>>
  BY ConcatEmptySeq DEF OnItsWay
<1>4. ASSUME NEW r \in Refs PROVE Pool!NumberOf(r, <<>>) = 0
  BY NothingNumbered
<1> QED BY <1>2, <1>3, <1>4 DEF PoolInv, WorkCounted

\* How items move: in at one end, out at the other, and from thread to thread between.
LEMMA ItemsMove ==
    ASSUME PoolInv, ~finished, ~finished'
    PROVE  /\ \A more \in Seq(Refs) :
                  queue' = queue \o more /\ entry' = entry /\ pposted' = pposted
                      => OnItsWay' = OnItsWay \o more
           /\ \A more \in Seq(Refs) :
                  pposted # <<>> /\ queue' = queue \o more /\ entry' = entry /\ pposted' = Tail(pposted)
                      => /\ OnItsWay # <<>> /\ Head(OnItsWay) = Head(pposted)
                         /\ OnItsWay' = Tail(OnItsWay) \o more
           /\ queue # <<>> /\ entry = <<>> /\ entry' = <<Head(queue)>> /\ queue' = Tail(queue)
                  /\ pposted' = pposted => OnItsWay' = OnItsWay
           /\ pposted' = pposted \o entry /\ entry' = <<>> /\ queue' = queue => OnItsWay' = OnItsWay
<1>1. /\ pposted \in Seq(Refs) /\ entry \in Seq(Refs) /\ queue \in Seq(Refs)
      /\ pposted \o entry \in Seq(Refs)
  BY ConcatProperties DEF PoolInv, PoolTyped, ThreadKnown
<1>2. OnItsWay = (pposted \o entry) \o queue /\ OnItsWay' = (pposted' \o entry') \o queue'
  BY DEF OnItsWay
<1>3. ASSUME NEW more \in Seq(Refs), queue' = queue \o more, entry' = entry, pposted' = pposted
      PROVE  OnItsWay' = OnItsWay \o more
  <2>1. ((pposted \o entry) \o queue) \o more = (pposted \o entry) \o (queue \o more)
    BY SMTT(30), <1>1, ConcatAssociative
  <2> QED BY <1>2, <1>3, <2>1
<1>4. ASSUME NEW more \in Seq(Refs), pposted # <<>>,
             queue' = queue \o more, entry' = entry, pposted' = Tail(pposted)
      PROVE  /\ OnItsWay # <<>> /\ Head(OnItsWay) = Head(pposted)
             /\ OnItsWay' = Tail(OnItsWay) \o more
  <2>1. /\ pposted \o entry # <<>> /\ Head(pposted \o entry) = Head(pposted)
        /\ Tail(pposted \o entry) = Tail(pposted) \o entry
    BY <1>1, <1>4, HeadAndTail
  <2>2. /\ OnItsWay # <<>> /\ Head(OnItsWay) = Head(pposted)
        /\ Tail(OnItsWay) = (Tail(pposted) \o entry) \o queue
    BY SMTT(30), <1>1, <1>2, <2>1, HeadAndTail
  <2>3. Tail(pposted) \o entry \in Seq(Refs)
    BY <1>1, <1>4, HeadTailProperties, ConcatProperties
  <2>4. ((Tail(pposted) \o entry) \o queue) \o more = (Tail(pposted) \o entry) \o (queue \o more)
    BY SMTT(30), <1>1, <2>3, ConcatAssociative
  <2> QED BY <1>2, <1>4, <2>2, <2>4
<1>5. ASSUME queue # <<>>, entry = <<>>, entry' = <<Head(queue)>>, queue' = Tail(queue),
             pposted' = pposted
      PROVE  OnItsWay' = OnItsWay
  <2>1. <<Head(queue)>> \o Tail(queue) = queue /\ <<Head(queue)>> \in Seq(Refs) /\ Tail(queue) \in Seq(Refs)
    BY <1>1, <1>5, HeadAndTail
  <2>2. OnItsWay = pposted \o queue
    BY <1>1, <1>2, <1>5, ConcatEmptySeq
  <2>3. OnItsWay' = pposted \o (<<Head(queue)>> \o Tail(queue))
    BY SMTT(30), <1>1, <1>2, <1>5, <2>1, ConcatAssociative
  <2> QED BY <2>1, <2>2, <2>3
<1>6. ASSUME pposted' = pposted \o entry, entry' = <<>>, queue' = queue PROVE OnItsWay' = OnItsWay
  BY <1>1, <1>2, <1>6, ConcatEmptySeq
<1> QED BY <1>3, <1>4, <1>5, <1>6

\* At most one item more behind.
LEMMA NumberedSome ==
    ASSUME NEW s \in Seq(Refs), NEW more \in {<<>>} \cup {<<m>> : m \in Refs}, NEW r
    PROVE  Pool!NumberOf(r, s \o more) = Pool!NumberOf(r, s) + (IF more = <<r>> THEN 1 ELSE 0)
<1>1. Pool!NumberOf(r, s) \in Nat
  BY Numbered
<1>2. CASE more = <<>>
  BY <1>1, <1>2, ConcatEmptySeq
<1>3. ASSUME NEW m \in Refs, more = <<m>>
      PROVE  Pool!NumberOf(r, s \o more) = Pool!NumberOf(r, s) + (IF more = <<r>> THEN 1 ELSE 0)
  <2>1. more = <<r>> <=> m = r
    BY <1>3
  <2> QED BY <1>3, <2>1, NumberedMore
<1> QED BY <1>2, <1>3

\* When every reference has stopped nothing is on its way.
LEMMA StoppedIdle ==
    ASSUME PoolInv, ~finished, \A r \in Refs : plevel[r] = "STOPPED"
    PROVE  pposted = <<>> /\ entry = <<>> /\ queue = <<>>
<1>1. \A r \in Refs : Pool!NumberOf(r, OnItsWay) = 0
  BY DEF PoolInv, WorkCounted
<1>2. OnItsWay \in Seq(Refs)
  BY OutstandingIs
<1>3. OnItsWay = <<>>
  <2>1. ASSUME OnItsWay # <<>> PROVE FALSE
    <3>1. 1 \in 1 .. Len(OnItsWay) /\ OnItsWay[1] \in Refs
      BY <1>2, <2>1, EmptySeq, LenProperties, ElementOfSeq
    <3> QED BY <1>1, <1>2, <3>1, Numbered
  <2> QED BY <2>1
<1>4. pposted \in Seq(Refs) /\ entry \in Seq(Refs) /\ queue \in Seq(Refs)
  BY DEF PoolInv, PoolTyped, ThreadKnown
<1>5. (pposted \o entry) \o queue = <<>> /\ pposted \o entry \in Seq(Refs)
  BY <1>3, <1>4, ConcatProperties DEF OnItsWay
<1>6. Len(pposted) + Len(entry) + Len(queue) = 0
  <2>1. Len(pposted \o entry) = Len(pposted) + Len(entry)
    BY <1>4, ConcatProperties
  <2>2. Len((pposted \o entry) \o queue) = Len(pposted \o entry) + Len(queue)
    BY <1>4, <1>5, ConcatProperties
  <2>3. Len(<<>>) = 0
    OBVIOUS
  <2> QED BY <1>5, <2>1, <2>2, <2>3
<1> QED BY <1>4, <1>6, LenProperties, EmptySeq

\* What the proactor's thread adds and takes is counted.
LEMMA RunInv ==
    ASSUME PoolInv, NEW r \in Refs, Pool!RunOnThread(r)
    PROVE  PoolInv' /\ ~finished /\ OnItsWay' = OnItsWay \o <<r>>
<1> USE DEF Pool!RunOnThread, Pool!MayRun, Pool!Post, Pool!Notify
<1>1. <<r>> # <<>> /\ Len(<<r>>) = 1 /\ <<r>> \in Seq(Refs)
  OBVIOUS
<1>2. ~finished /\ ~finished'
  BY DEF PoolInv, ThreadKnown
<1>3. \A q \in Refs : /\ items'[q] = items[q] + (IF <<r>> = <<q>> THEN 1 ELSE 0)
                      /\ <<r>> = <<q>> <=> r = q
  BY DEF PoolInv, PoolTyped, Pool!Added
<1>4. PoolTyped'
  <2>1. items' \in [Refs -> 0 .. MaxItems]
    BY <1>3, MCSchedulersAssumption
    DEF PoolInv, PoolTyped, Pool!Added, MCSchedulersAssumption, Pool!ThreadPoolAssumption
  <2>2. queue' \in Seq(Refs)
    BY <1>1, ConcatProperties DEF PoolInv, PoolTyped
  <2>3. progress' \in Nat
    BY <1>1 DEF PoolInv, PoolTyped
  <2>4. thread' \in {"looking", "waiting", "running", "counting", "leaving", "exiting", "exited"}
    BY DEF PoolInv, PoolTyped
  <2> QED BY <2>1, <2>2, <2>3, <2>4 DEF PoolInv, PoolTyped
<1>5. ThreadKnown'
  BY <1>1, <1>2 DEF PoolInv, PoolTyped, ThreadKnown
<1>6. OnItsWay' = OnItsWay \o <<r>> /\ OnItsWay \in Seq(Refs)
  BY <1>1, <1>2, ItemsMove, OutstandingIs
<1>7. WorkCounted'
  <2>2. ASSUME NEW q \in Refs
        PROVE  items'[q] = Pool!NumberOf(q, OnItsWay)' /\ (plevel'[q] = "STOPPED" => items'[q] = 0)
    <3>1. Pool!NumberOf(q, OnItsWay') = Pool!NumberOf(q, OnItsWay) + (IF <<r>> = <<q>> THEN 1 ELSE 0)
      BY <1>6, NumberedSome
    <3>2. Pool!NumberOf(q, OnItsWay)' = Pool!NumberOf(q, OnItsWay')
      BY DEF Pool!NumberOf, Pool!Cardinality
    <3>3. items[q] = Pool!NumberOf(q, OnItsWay) /\ (plevel[q] = "STOPPED" => items[q] = 0)
      BY DEF PoolInv, WorkCounted
    <3> QED BY <1>3, <3>1, <3>2, <3>3
  <2>3. Len(queue') = Len(queue) + 1 /\ Len(queue) \in Nat
    BY <1>1, ConcatProperties, LenProperties DEF PoolInv, PoolTyped
  <2>4. progress' = Len(queue') + (IF thread' \in {"running", "counting"} THEN 1 ELSE 0)
    BY <1>1, <2>3 DEF PoolInv, PoolTyped, WorkCounted
  <2> QED BY <2>2, <2>4 DEF WorkCounted
<1> QED BY <1>2, <1>4, <1>5, <1>6, <1>7 DEF PoolInv

LEMMA CompletedInv ==
    ASSUME PoolInv, Pool!Completed
    PROVE  /\ PoolInv' /\ OnItsWay # <<>>
           /\ plevel' \in IF plevel[Head(OnItsWay)] = "STOPPING"
                          THEN {plevel, [plevel EXCEPT ![Head(OnItsWay)] = "STOPPED"]} ELSE {plevel}
           /\ \E more \in {<<>>} \cup {<<m>> : m \in Refs} :
                 /\ \A i \in DOMAIN more : plevel[more[i]] = "RUNNING"
                 /\ OnItsWay' = Tail(OnItsWay) \o more
<1> USE DEF Pool!MayRun, Pool!Notify
<1> DEFINE r == Head(pposted)
<1>1. PICK more \in {<<>>} \cup {<<m>> : m \in {q \in Refs : Pool!MayRun(q)}} :
          /\ items' = Pool!Added([items EXCEPT ![r] = @ - 1], more)
          /\ Pool!Post(more)
          /\ Pool!CheckStopped(r, plevel[r], items[r] - 1)
  BY DEF Pool!Completed
<1>2. /\ pposted # <<>> /\ r \in Refs /\ pposted' = Tail(pposted)
      /\ UNCHANGED <<pstopping, pool, entry, finished>>
      /\ queue' = queue \o more /\ progress' = progress + Len(more)
      /\ IF more = <<>> THEN UNCHANGED thread ELSE Pool!Notify
  BY <1>1 DEF Pool!Completed, Pool!Post
<1>3. ~finished /\ ~finished'
  <2>1. ASSUME finished PROVE FALSE
    <3>1. pposted = <<"threadCompleted">>
      BY <1>2, <2>1 DEF PoolInv, ThreadKnown
    <3>2. Head(<<"threadCompleted">>) = "threadCompleted"
      OBVIOUS
    <3> QED BY <1>2, <3>1, <3>2, MCSchedulersAssumption
        DEF MCSchedulersAssumption, Pool!ThreadPoolAssumption
  <2> QED BY <1>2, <2>1
<1> HIDE DEF r
<1>4. /\ more \in {<<>>} \cup {<<m>> : m \in Refs} /\ more \in Seq(Refs)
      /\ Len(more) \in Nat /\ Len(queue \o more) = Len(queue) + Len(more)
      /\ queue \o more \in Seq(Refs) /\ Len(queue) \in Nat
  <2>1. more \in {<<>>} \cup {<<m>> : m \in Refs} /\ more \in Seq(Refs)
    <3>1. CASE more = <<>>
      BY <3>1
    <3>2. ASSUME NEW m \in Refs, more = <<m>>
          PROVE  more \in {<<>>} \cup {<<q>> : q \in Refs} /\ more \in Seq(Refs)
      BY <3>2
    <3> QED BY <3>1, <3>2
  <2>2. queue \in Seq(Refs)
    BY DEF PoolInv, PoolTyped
  <2> QED BY <2>1, <2>2, ConcatProperties, LenProperties
<1>5. \A q \in Refs : more = <<q>> => plevel[q] = "RUNNING" /\ items[q] < MaxItems
  <2> SUFFICES ASSUME NEW q \in Refs, more = <<q>> PROVE Pool!MayRun(q)
    OBVIOUS
  <2>1. PICK m \in {p \in Refs : Pool!MayRun(p)} : more = <<m>>
    OBVIOUS
  <2>2. m = q
    BY <2>1
  <2> QED BY <2>1, <2>2
<1>6. /\ OnItsWay \in Seq(Refs) /\ OnItsWay # <<>> /\ Head(OnItsWay) = r
      /\ OnItsWay' = Tail(OnItsWay) \o more /\ Tail(OnItsWay) \in Seq(Refs)
  BY <1>2, <1>3, <1>4, ItemsMove, OutstandingIs, HeadTailProperties DEF r
<1>7. ASSUME NEW q \in Refs
      PROVE  /\ items'[q] = Pool!NumberOf(q, OnItsWay')
             /\ items'[q] = items[q] - (IF q = r THEN 1 ELSE 0) + (IF more = <<q>> THEN 1 ELSE 0)
             /\ items[q] - (IF q = r THEN 1 ELSE 0) \in Nat
  <2>1. /\ Pool!NumberOf(q, Tail(OnItsWay)) = Pool!NumberOf(q, OnItsWay) - (IF r = q THEN 1 ELSE 0)
        /\ Pool!NumberOf(q, Tail(OnItsWay)) \in Nat
    BY <1>6, NumberedTail, Numbered
  <2>2. Pool!NumberOf(q, OnItsWay') = Pool!NumberOf(q, Tail(OnItsWay)) + (IF more = <<q>> THEN 1 ELSE 0)
    BY <1>4, <1>6, NumberedSome
  <2>3. items[q] = Pool!NumberOf(q, OnItsWay)
    BY DEF PoolInv, WorkCounted
  <2>4. items'[q] = items[q] - (IF q = r THEN 1 ELSE 0) + (IF more = <<q>> THEN 1 ELSE 0)
    BY <1>1, <1>2 DEF Pool!Added, PoolInv, PoolTyped
  <2> QED BY <2>1, <2>2, <2>3, <2>4
<1>8. plevel' = [plevel EXCEPT ![r] = IF plevel[r] = "STOPPING" /\ items[r] - 1 = 0
                                      THEN "STOPPED" ELSE plevel[r]]
  BY <1>1 DEF Pool!CheckStopped
<1>9. PoolTyped'
  <2>1. items' \in [Refs -> 0 .. MaxItems]
    <3>1. items' = [q \in Refs |-> items'[q]]
      BY <1>1 DEF Pool!Added
    <3>2. \A q \in Refs : items'[q] \in 0 .. MaxItems
      BY SMTT(30), <1>5, <1>7, MCSchedulersAssumption
      DEF PoolInv, PoolTyped, MCSchedulersAssumption, Pool!ThreadPoolAssumption
    <3> QED BY <3>1, <3>2
  <2>2. plevel' \in [Refs -> Pool!Levels]
    BY <1>2, <1>8 DEF PoolInv, PoolTyped, Pool!Levels
  <2>3. pposted' \in Seq(Pool!Posts)
    BY <1>2, HeadTailProperties DEF PoolInv, PoolTyped
  <2>4. thread' \in {"looking", "waiting", "running", "counting", "leaving", "exiting", "exited"}
    BY <1>2 DEF PoolInv, PoolTyped
  <2>5. progress' \in Nat
    BY <1>2, <1>4 DEF PoolInv, PoolTyped
  <2> QED BY <1>2, <1>4, <2>1, <2>2, <2>3, <2>4, <2>5 DEF PoolInv, PoolTyped
<1>10. ThreadKnown'
  <2>1. pposted' \in Seq(Refs)
    BY <1>2, <1>3, HeadTailProperties DEF PoolInv, ThreadKnown
  <2> QED BY <1>2, <1>3, <2>1 DEF PoolInv, PoolTyped, ThreadKnown
<1>11. WorkCounted'
  <2>1. ASSUME NEW q \in Refs
        PROVE  items'[q] = Pool!NumberOf(q, OnItsWay)' /\ (plevel'[q] = "STOPPED" => items'[q] = 0)
    <3>1. Pool!NumberOf(q, OnItsWay)' = Pool!NumberOf(q, OnItsWay')
      BY DEF Pool!NumberOf, Pool!Cardinality
    <3>2. plevel[q] = "STOPPED" => items[q] = 0
      BY DEF PoolInv, WorkCounted
    <3>3. plevel'[q] = IF q = r /\ plevel[r] = "STOPPING" /\ items[r] - 1 = 0 THEN "STOPPED" ELSE plevel[q]
      BY <1>2, <1>8 DEF PoolInv, PoolTyped
    <3>4. plevel'[q] = "STOPPED" => items'[q] = 0
      BY <1>5, <1>7, <3>2, <3>3
    <3> QED BY <1>7, <3>1, <3>4
  <2>2. thread \in {"running", "counting"} <=> thread' \in {"running", "counting"}
    BY <1>2
  <2>3. progress' = Len(queue') + (IF thread' \in {"running", "counting"} THEN 1 ELSE 0)
    <3>1. progress = Len(queue) + (IF thread \in {"running", "counting"} THEN 1 ELSE 0)
      BY DEF PoolInv, WorkCounted
    <3>2. progress' = progress + Len(more) /\ Len(queue') = Len(queue) + Len(more)
      BY <1>2, <1>4
    <3> QED BY <1>4, <2>2, <3>1, <3>2
  <2> QED BY <2>1, <2>3 DEF WorkCounted
<1>12. \A i \in DOMAIN more : plevel[more[i]] = "RUNNING"
  <2>1. CASE more = <<>>
    BY <2>1
  <2>2. ASSUME NEW m \in Refs, more = <<m>> PROVE \A i \in DOMAIN more : plevel[more[i]] = "RUNNING"
    BY <1>5, <2>2
  <2> QED BY <1>4, <2>1, <2>2
<1>13. plevel' \in IF plevel[r] = "STOPPING" THEN {plevel, [plevel EXCEPT ![r] = "STOPPED"]} ELSE {plevel}
  <2>1. plevel = [plevel EXCEPT ![r] = plevel[r]]
    BY <1>2 DEF PoolInv, PoolTyped
  <2> QED BY <1>8, <2>1
<1> QED BY <1>4, <1>6, <1>9, <1>10, <1>11, <1>12, <1>13 DEF PoolInv

\* The counts stay what they are when the items stay on their way.
LEMMA CountsKept ==
    ASSUME PoolInv, OnItsWay' = OnItsWay, items' = items,
           \A r \in Refs : plevel'[r] = "STOPPED" => plevel[r] = "STOPPED" \/ items[r] = 0,
           progress' = Len(queue') + (IF thread' \in {"running", "counting"} THEN 1 ELSE 0)
    PROVE  WorkCounted'
<1>1. \A r \in Refs : items[r] = Pool!NumberOf(r, OnItsWay) /\ (plevel[r] = "STOPPED" => items[r] = 0)
  BY DEF PoolInv, WorkCounted
<1>2. \A r \in Refs : Pool!NumberOf(r, OnItsWay)' = Pool!NumberOf(r, OnItsWay')
  BY DEF Pool!NumberOf, Pool!Cardinality
<1> QED BY <1>1, <1>2 DEF WorkCounted

\* A reference stops once its last item has come back.
LEMMA RefStopInv ==
    ASSUME PoolInv, NEW r \in Refs, Pool!RequestStop(r) \/ Pool!HandleRefStopping(r)
    PROVE  PoolInv' /\ OnItsWay' = OnItsWay
<1>1. UNCHANGED <<items, pool, queue, finished, progress, thread, entry, pposted>>
  BY DEF Pool!RequestStop, Pool!HandleRefStopping, Pool!shared, Pool!threadVars
<1>2. /\ pstopping' \subseteq Refs /\ plevel' \in [Refs -> Pool!Levels]
      /\ \A q \in Refs : plevel'[q] = "STOPPED" => plevel[q] = "STOPPED" \/ items[q] = 0
      /\ \A q \in Refs : plevel[q] = "STOPPED" => plevel'[q] = "STOPPED"
  BY DEF Pool!RequestStop, Pool!HandleRefStopping, Pool!CheckStopped, Pool!Levels, PoolInv, PoolTyped
<1>3. PoolTyped'
  BY <1>1, <1>2 DEF PoolInv, PoolTyped
<1>4. ThreadKnown'
  BY <1>1, <1>2 DEF PoolInv, ThreadKnown
<1>5. OnItsWay' = OnItsWay
  BY <1>1 DEF OnItsWay
<1>6. progress' = Len(queue') + (IF thread' \in {"running", "counting"} THEN 1 ELSE 0)
  BY <1>1 DEF PoolInv, WorkCounted
<1> QED BY <1>1, <1>2, <1>3, <1>4, <1>5, <1>6, CountsKept DEF PoolInv

\* The pool is told to finish with nothing left to do.
LEMMA FinishInv == ASSUME PoolInv, Pool!HandleStopping PROVE PoolInv' /\ OnItsWay' = OnItsWay
<1> USE DEF Pool!HandleStopping, Pool!Notify
<1>1. ~finished
  BY DEF PoolInv, ThreadKnown
<1>2. pposted = <<>> /\ entry = <<>> /\ queue = <<>>
  BY <1>1, StoppedIdle
<1>3. OnItsWay = <<>> /\ OnItsWay' = <<>>
  BY <1>1, <1>2, ConcatEmptySeq DEF OnItsWay
<1>4. PoolTyped'
  BY DEF PoolInv, PoolTyped, Pool!refVars, Pool!Levels
<1>5. ThreadKnown'
  BY <1>1, <1>2 DEF PoolInv, PoolTyped, ThreadKnown, Pool!refVars
<1>6. progress' = Len(queue') + (IF thread' \in {"running", "counting"} THEN 1 ELSE 0)
  BY DEF PoolInv, WorkCounted
<1> QED BY <1>3, <1>4, <1>5, <1>6, CountsKept DEF PoolInv, Pool!refVars

\* Its thread leaves behind it nothing but its own completion.
LEMMA JoinInv ==
    ASSUME PoolInv, Pool!NotifyThreadCompleted
    PROVE  PoolInv' /\ OnItsWay' = OnItsWay /\ pool = "STOPPING" /\ finished
<1> USE DEF Pool!NotifyThreadCompleted
<1>1. finished /\ finished'
  BY DEF PoolInv, ThreadKnown, Pool!shared
<1>2. pool = "STOPPING" /\ pposted = <<"threadCompleted">> /\ pposted' = <<>>
  <2>1. pool = "STOPPING" /\ pposted = <<"threadCompleted">>
    BY <1>1 DEF PoolInv, ThreadKnown
  <2>2. Tail(<<"threadCompleted">>) = <<>>
    OBVIOUS
  <2> QED BY <2>1, <2>2
<1>3. OnItsWay = <<>> /\ OnItsWay' = <<>>
  BY <1>1 DEF OnItsWay
<1>4. PoolTyped'
  BY <1>2 DEF PoolInv, PoolTyped, Pool!refVars, Pool!shared, Pool!Levels
<1>5. ThreadKnown'
  BY <1>1, <1>2 DEF PoolInv, ThreadKnown, Pool!refVars, Pool!shared
<1>6. progress' = Len(queue') + (IF thread' \in {"running", "counting"} THEN 1 ELSE 0)
  BY DEF PoolInv, WorkCounted, Pool!shared
<1> QED BY <1>1, <1>2, <1>3, <1>4, <1>5, <1>6, CountsKept DEF PoolInv, Pool!refVars

\* The thread hands an item on without losing it.
LEMMA ThreadStepInv ==
    ASSUME PoolInv, Pool!ThreadStep \/ Pool!WakeSpuriously
    PROVE  PoolInv' /\ OnItsWay' = OnItsWay
<1> USE DEF Pool!refVars, Pool!shared
<1>1. UNCHANGED <<plevel, pstopping, items, pool, finished>>
  BY DEF Pool!ThreadStep, Pool!Look, Pool!RunItem, Pool!Count, Pool!Leave, Pool!Exit, Pool!WakeSpuriously
<1>2. /\ Len(queue) \in Nat /\ progress \in Nat /\ queue \in Seq(Refs) /\ entry \in Seq(Refs)
      /\ pposted \in Seq(Pool!Posts)
      /\ progress = Len(queue) + (IF thread \in {"running", "counting"} THEN 1 ELSE 0)
  BY LenProperties DEF PoolInv, PoolTyped, WorkCounted
<1>3. ASSUME PoolTyped', ThreadKnown', OnItsWay' = OnItsWay,
             progress' = Len(queue') + (IF thread' \in {"running", "counting"} THEN 1 ELSE 0)
      PROVE  PoolInv' /\ OnItsWay' = OnItsWay
  BY <1>1, <1>3, CountsKept DEF PoolInv
<1>4. CASE Pool!Look
  <2> USE DEF Pool!Look
  <2>1. ASSUME queue # <<>>, Pool!Take, thread' = "running"
        PROVE  PoolInv' /\ OnItsWay' = OnItsWay
    <3>1. ~finished /\ ~finished' /\ entry = <<>> /\ pposted' = pposted /\ progress' = progress
      BY <1>1, <1>4, <2>1 DEF PoolInv, ThreadKnown
    <3>2. /\ entry' = <<Head(queue)>> /\ queue' = Tail(queue)
          /\ entry' \in Seq(Refs) /\ queue' \in Seq(Refs)
          /\ Len(queue') = Len(queue) - 1 /\ Len(entry') = 1
      BY <1>2, <2>1, HeadTailProperties DEF Pool!Take
    <3>3. PoolTyped'
      BY <1>1, <2>1, <3>1, <3>2 DEF PoolInv, PoolTyped
    <3>4. ThreadKnown'
      BY <1>1, <2>1, <3>1, <3>2 DEF PoolInv, ThreadKnown
    <3>5. OnItsWay' = OnItsWay
      BY <2>1, <3>1, <3>2, ItemsMove
    <3>6. progress' = Len(queue') + (IF thread' \in {"running", "counting"} THEN 1 ELSE 0)
      BY <1>2, <1>4, <2>1, <3>1, <3>2
    <3> QED BY <1>3, <3>3, <3>4, <3>5, <3>6
  <2>2. ASSUME thread' = IF finished THEN "leaving" ELSE "waiting", UNCHANGED <<queue, entry>>
        PROVE  PoolInv' /\ OnItsWay' = OnItsWay
    <3>1. PoolTyped' /\ ThreadKnown' /\ OnItsWay' = OnItsWay
      BY <1>1, <1>4, <2>2 DEF PoolInv, PoolTyped, ThreadKnown, OnItsWay
    <3>2. progress' = Len(queue') + (IF thread' \in {"running", "counting"} THEN 1 ELSE 0)
      BY <1>2, <1>4, <2>2
    <3> QED BY <1>3, <3>1, <3>2
  <2> QED BY <1>4, <2>1, <2>2
<1>5. CASE Pool!RunItem
  <2> USE DEF Pool!RunItem
  <2>1. ~finished /\ ~finished'
    <3>1. Len(entry) = 1 /\ Len(<<>>) = 0
      BY <1>5 DEF PoolInv, ThreadKnown
    <3> QED BY <1>1, <3>1 DEF PoolInv, ThreadKnown
  <2>2. pposted' \in Seq(Refs) /\ pposted' \in Seq(Pool!Posts)
    <3>1. pposted \in Seq(Refs)
      BY <2>1 DEF PoolInv, ThreadKnown
    <3>2. entry \in Seq(Pool!Posts)
      BY <1>2 DEF Pool!Posts
    <3> QED BY <1>2, <1>5, <3>1, <3>2, ConcatProperties
  <2>3. PoolTyped' /\ ThreadKnown'
    BY <1>1, <1>5, <2>1, <2>2 DEF PoolInv, PoolTyped, ThreadKnown
  <2>4. OnItsWay' = OnItsWay
    BY <1>5, <2>1, ItemsMove
  <2>5. progress' = Len(queue') + (IF thread' \in {"running", "counting"} THEN 1 ELSE 0)
    BY <1>2, <1>5
  <2> QED BY <1>3, <2>3, <2>4, <2>5
<1>6. CASE Pool!Count
  <2> USE DEF Pool!Count
  <2>1. progress' = progress - 1 /\ queue' = queue /\ thread = "counting" /\ thread' = "looking"
    BY <1>6
  <2>2. progress = Len(queue) + 1
    BY <1>2, <2>1
  <2>3. progress' \in Nat /\ progress' = Len(queue') + (IF thread' \in {"running", "counting"} THEN 1 ELSE 0)
    BY <1>2, <2>1, <2>2
  <2>4. PoolTyped' /\ ThreadKnown' /\ OnItsWay' = OnItsWay
    BY <1>1, <1>6, <2>3 DEF PoolInv, PoolTyped, ThreadKnown, OnItsWay
  <2> QED BY <1>3, <2>3, <2>4
<1>7. CASE Pool!Leave
  <2> USE DEF Pool!Leave
  <2>1. finished /\ pool # "RUNNING" /\ pool # "STOPPED" /\ pool = "STOPPING" /\ pposted = <<>>
    BY <1>7 DEF PoolInv, ThreadKnown, PoolTyped, Pool!Levels
  <2>2. pposted' = <<"threadCompleted">> /\ <<"threadCompleted">> \in Seq(Pool!Posts)
    BY <1>7, <2>1 DEF Pool!Posts
  <2>3. PoolTyped' /\ ThreadKnown' /\ OnItsWay' = OnItsWay
    BY <1>1, <1>7, <2>1, <2>2 DEF PoolInv, PoolTyped, ThreadKnown, OnItsWay
  <2>4. progress' = Len(queue') + (IF thread' \in {"running", "counting"} THEN 1 ELSE 0)
    BY <1>2, <1>7
  <2> QED BY <1>3, <2>3, <2>4
<1>8. CASE Pool!Exit
  <2>1. PoolTyped' /\ ThreadKnown' /\ OnItsWay' = OnItsWay
    BY <1>1, <1>8 DEF PoolInv, PoolTyped, ThreadKnown, OnItsWay, Pool!Exit
  <2>2. progress' = Len(queue') + (IF thread' \in {"running", "counting"} THEN 1 ELSE 0)
    BY <1>2, <1>8 DEF Pool!Exit
  <2> QED BY <1>3, <2>1, <2>2
<1>9. CASE Pool!WakeSpuriously
  <2>1. PoolTyped' /\ ThreadKnown' /\ OnItsWay' = OnItsWay
    BY <1>1, <1>9 DEF PoolInv, PoolTyped, ThreadKnown, OnItsWay, Pool!WakeSpuriously
  <2>2. progress' = Len(queue') + (IF thread' \in {"running", "counting"} THEN 1 ELSE 0)
    BY <1>2, <1>9 DEF Pool!WakeSpuriously
  <2> QED BY <1>3, <2>1, <2>2
<1> QED BY <1>4, <1>5, <1>6, <1>7, <1>8, <1>9 DEF Pool!ThreadStep

\* And every step keeps it.
LEMMA PoolNextInv == PoolInv /\ [Pool!Next]_(Pool!vars) => PoolInv'
<1> SUFFICES ASSUME PoolInv, [Pool!Next]_(Pool!vars) PROVE PoolInv'
  OBVIOUS
<1>1. ASSUME UNCHANGED Pool!vars PROVE PoolInv'
  <2>1. UNCHANGED <<plevel, pstopping, items, pool, queue, finished, progress, thread, entry, pposted>>
    BY <1>1 DEF Pool!vars, Pool!refVars, Pool!shared, Pool!threadVars
  <2>2. PoolTyped' /\ ThreadKnown' /\ OnItsWay' = OnItsWay
    BY <2>1 DEF PoolInv, PoolTyped, ThreadKnown, OnItsWay
  <2>3. progress' = Len(queue') + (IF thread' \in {"running", "counting"} THEN 1 ELSE 0)
    BY <2>1 DEF PoolInv, WorkCounted
  <2> QED BY <2>1, <2>2, <2>3, CountsKept DEF PoolInv
<1>2. CASE Pool!Next
  BY <1>1, <1>2, RunInv, CompletedInv, RefStopInv, FinishInv, JoinInv, ThreadStepInv
  DEF Pool!Next, Pool!Handler, Pool!Stopped
<1> QED BY <1>1, <1>2

\* The two threads of a pool and the references to it agree about every item of work, and
\* none of them outlives what it uses (ThreadPool.cpp, ThreadPoolRef).
THEOREM PoolStaysConsistent == Pool!Spec => []Pool!Consistent
BY PoolInitInv, PoolNextInv, PoolInvImplies, PTL DEF Pool!Spec

\* No work is on its way through a reference that has stopped.
LEMMA StoppedRefIdle ==
    PoolInv => \A r \in Refs : plevel[r] = "STOPPED"
                  => \A i \in DOMAIN Pool!Outstanding : Pool!Outstanding[i] # r
<1> SUFFICES ASSUME PoolInv, NEW r \in Refs, plevel[r] = "STOPPED"
             PROVE  \A i \in DOMAIN Pool!Outstanding : Pool!Outstanding[i] # r
  OBVIOUS
<1>1. Pool!NumberOf(r, OnItsWay) = 0
  BY DEF PoolInv, WorkCounted
<1>2. Pool!Outstanding = OnItsWay /\ OnItsWay \in Seq(Refs) /\ DOMAIN OnItsWay = 1 .. Len(OnItsWay)
  BY OutstandingIs, LenProperties
<1> QED BY <1>1, <1>2, Numbered

LEMMA PoolInitPromise == Pool!Init => Pool!Promise!Init
<1> SUFFICES ASSUME Pool!Init PROVE Pool!Promise!Init
  OBVIOUS
<1>1. Pool!Outstanding = OnItsWay
  BY PoolInitInv, OutstandingIs
<1>2. OnItsWay = <<>>
  BY ConcatEmptySeq DEF OnItsWay, Pool!Init
<1> QED BY <1>1, <1>2 DEF Pool!Init, Pool!Promise!Init

\* Every step of either thread is one of the promise, or none at all.
LEMMA PoolStepPromise ==
    PoolInv /\ PoolInv' /\ [Pool!Next]_(Pool!vars)
        => [Pool!Promise!Next]_<<Pool!Outstanding, plevel, pool>>
<1>1. (PoolInv => Pool!Outstanding = OnItsWay /\ OnItsWay \in Seq(Refs))'
  <2>1. PoolInv => Pool!Outstanding = OnItsWay /\ OnItsWay \in Seq(Refs)
    BY OutstandingIs
  <2> QED BY <2>1, PTL
<1>2. (PoolInv => \A r \in Refs : plevel[r] = "STOPPED"
          => \A i \in DOMAIN Pool!Outstanding : Pool!Outstanding[i] # r)'
  BY StoppedRefIdle, PTL
<1> SUFFICES ASSUME PoolInv, PoolInv', [Pool!Next]_(Pool!vars)
             PROVE  [Pool!Promise!Next]_<<Pool!Outstanding, plevel, pool>>
  OBVIOUS
<1>3. /\ Pool!Outstanding = OnItsWay /\ OnItsWay \in Seq(Refs)
      /\ Pool!Outstanding' = OnItsWay' /\ OnItsWay' \in Seq(Refs)
  BY <1>1, OutstandingIs
<1>4. \A r \in Refs : plevel'[r] = "STOPPED" => Pool!Promise!Idle(r)
  BY <1>2 DEF Pool!Promise!Idle
<1>5. ASSUME UNCHANGED Pool!vars PROVE UNCHANGED <<Pool!Outstanding, plevel, pool>>
  BY <1>5 DEF Pool!vars, Pool!refVars, Pool!shared, Pool!threadVars, Pool!Outstanding, Pool!Completions,
              Pool!Last, Pool!Front
<1>6. ASSUME NEW r \in Refs, Pool!RunOnThread(r) PROVE Pool!Promise!Next
  <2>1. ~finished /\ OnItsWay' = OnItsWay \o <<r>>
    BY <1>6, RunInv
  <2>2. OnItsWay' = Append(OnItsWay, r)
    BY <1>3, <2>1, AppendIsConcat
  <2>3. plevel[r] = "RUNNING" /\ pool = "RUNNING" /\ UNCHANGED <<plevel, pool>>
    BY <1>6, <2>1 DEF Pool!RunOnThread, Pool!MayRun, PoolInv, ThreadKnown
  <2>4. Pool!Promise!Submit(r)
    BY <1>3, <2>2, <2>3 DEF Pool!Promise!Submit
  <2> QED BY <1>4, <2>4 DEF Pool!Promise!Next
<1>7. ASSUME Pool!Completed PROVE Pool!Promise!Next
  <2>1. PICK more \in {<<>>} \cup {<<m>> : m \in Refs} :
            /\ \A i \in DOMAIN more : plevel[more[i]] = "RUNNING"
            /\ OnItsWay' = Tail(OnItsWay) \o more
    BY <1>7, CompletedInv
  <2>2. Pool!Promise!Complete(more)
    BY <1>3, <1>7, <2>1, CompletedInv DEF Pool!Completed, Pool!Promise!Complete
  <2> QED BY <1>4, <2>2 DEF Pool!Promise!Next
<1>8. ASSUME NEW r \in Refs, Pool!RequestStop(r)
      PROVE  UNCHANGED <<Pool!Outstanding, plevel, pool>>
  BY <1>3, <1>8, RefStopInv DEF Pool!RequestStop
<1>9. ASSUME NEW r \in Refs, Pool!HandleRefStopping(r) PROVE Pool!Promise!Next
  <2>1. OnItsWay' = OnItsWay
    BY <1>9, RefStopInv
  <2>2. Pool!Promise!Stop(r)
    BY <1>3, <1>9, <2>1 DEF Pool!HandleRefStopping, Pool!CheckStopped, Pool!Promise!Stop
  <2> QED BY <1>4, <2>2 DEF Pool!Promise!Next
<1>10. ASSUME Pool!HandleStopping \/ Pool!NotifyThreadCompleted PROVE Pool!Promise!Next
  <2>1. OnItsWay' = OnItsWay
    BY <1>10, FinishInv, JoinInv
  <2>2. <<pool, pool'>> \in {<<"RUNNING", "STOPPING">>, <<"STOPPING", "STOPPED">>}
    BY <1>10, JoinInv DEF Pool!HandleStopping, Pool!NotifyThreadCompleted
  <2>3. (\A r \in Refs : plevel[r] = "STOPPED") /\ plevel' = plevel
    BY <1>10, JoinInv
    DEF Pool!HandleStopping, Pool!NotifyThreadCompleted, Pool!refVars, PoolInv, ThreadKnown
  <2>4. Pool!Promise!StopPool
    BY <1>3, <2>1, <2>2, <2>3 DEF Pool!Promise!StopPool
  <2> QED BY <1>4, <2>4 DEF Pool!Promise!Next
<1>11. ASSUME Pool!ThreadStep \/ Pool!WakeSpuriously
       PROVE  UNCHANGED <<Pool!Outstanding, plevel, pool>>
  <2>1. OnItsWay' = OnItsWay
    BY <1>11, ThreadStepInv
  <2>2. UNCHANGED <<plevel, pool>>
    BY <1>11 DEF Pool!ThreadStep, Pool!Look, Pool!RunItem, Pool!Count, Pool!Leave, Pool!Exit,
                 Pool!WakeSpuriously, Pool!refVars
  <2> QED BY <1>3, <2>1, <2>2
<1> QED BY <1>5, <1>6, <1>7, <1>8, <1>9, <1>10, <1>11 DEF Pool!Next, Pool!Handler, Pool!Stopped

\* The pool's two threads together are a WorkService: work completes in the order it was
\* handed over, a reference stops with none of its work left and the pool after them all.
THEOREM PoolIsWorkService == Pool!Spec => Pool!IsWorkService
BY PoolInitInv, PoolNextInv, PoolInitPromise, PoolStepPromise, PTL
DEF Pool!Spec, Pool!IsWorkService, Pool!Promise!Service

-----------------------------------------------------------------------------
\* AudioThread: where the audio thread is tells what is there.

Opened == at \notin {"opening", "posting", "ending", "ended"}

AudioTyped ==
    /\ alevel \in {"RUNNING", "STOPPING", "STOPPED"}
    /\ requested \in BOOLEAN /\ flag \in BOOLEAN /\ aposted \in BOOLEAN
    /\ at \in {"opening", "starting", "looping", "waiting", "filling", "playing", "generating",
               "completing", "closing", "stopping", "spinning", "posting", "ending", "ended", "failed"}
    /\ palive \in BOOLEAN /\ closed \in BOOLEAN /\ events \in Seq({"on", "off"} \X Notes)
    /\ card \in {"closed", "open", "lost"} /\ wants \in BOOLEAN /\ bufferOpen \in BOOLEAN
    /\ synth \in [Notes -> {"none", "on", "fading"}] /\ held \subseteq Notes

\* The thread closes because the flag is set, and has Join posted when it is done.
JoinKnown ==
    /\ flag <=> alevel # "RUNNING"
    /\ at \in {"closing", "stopping", "spinning", "posting", "ending", "ended"} => flag
    /\ aposted => at \in {"ending", "ended"} /\ alevel = "STOPPING"
    /\ alevel = "STOPPED" => at = "ended"
    /\ at \in {"opening", "starting", "stopping", "spinning", "posting", "ending", "ended"} => card = "closed"

\* The driver has reported its close, and MidiInProc has returned, before Pimpl goes.
DriverKnown ==
    /\ palive <=> Opened
    /\ driver \in {"none", "started", "stopped", "closed"}
    /\ driver = "none" => call = <<>> /\ ~closed
    /\ driver \in {"started", "stopped"} =>
          ~closed /\ (call = <<>> \/ \E e \in {"on", "off"} \X Notes : call = <<e>>)
    /\ driver = "closed" => IF closed THEN call = <<>> ELSE call = << <<"close">> >>
    /\ driver \in {"stopped", "closed"} => at \in {"spinning", "posting", "ending", "ended"}
    /\ at = "opening" => driver = "none" /\ events = <<>>
    /\ at \in {"posting", "ending", "ended"} => events = <<>> /\ (driver = "none" \/ (driver = "closed" /\ closed))
    /\ driver = "started" => at \notin {"spinning", "posting", "ending", "ended"}

\* What the keyboard has played and the synth has not.
Ahead == events \o call

\* A key that is up, its note begun, has its release still to come.
ReleaseComes ==
    at \notin {"posting", "ending", "ended"} =>
        \A n \in Notes \ held :
            /\ synth[n] = "on" => \E j \in DOMAIN Ahead : Ahead[j] = <<"off", n>>
            /\ \A i \in DOMAIN Ahead : Ahead[i] = <<"on", n>>
                   => \E j \in DOMAIN Ahead : i < j /\ Ahead[j] = <<"off", n>>

AudioInv == AudioTyped /\ JoinKnown /\ DriverKnown /\ ReleaseComes

CallKinds == {<<>>, << <<"close">> >>} \cup {<<e>> : e \in {"on", "off"} \X Notes}

\* How much the keyboard is ahead.
LEMMA AheadIs ==
    ASSUME NEW es \in Seq({"on", "off"} \X Notes), NEW c \in CallKinds
    PROVE  /\ Len(es) \in Nat /\ DOMAIN es = 1 .. Len(es)
           /\ Len(c) \in 0 .. 1 /\ (Len(c) = 0 <=> c = <<>>)
           /\ DOMAIN (es \o c) = 1 .. (Len(es) + Len(c))
           /\ \A i \in 1 .. Len(es) : (es \o c)[i] = es[i] /\ es[i] \in {"on", "off"} \X Notes
           /\ c # <<>> => (es \o c)[Len(es) + 1] = c[1]
<1>1. es \in Seq(({"on", "off"} \X Notes) \cup {<<"close">>}) /\ Len(es) \in Nat /\ DOMAIN es = 1 .. Len(es)
  BY LenProperties
<1>2. /\ c \in Seq(({"on", "off"} \X Notes) \cup {<<"close">>}) /\ Len(c) \in 0 .. 1
      /\ (Len(c) = 0 <=> c = <<>>)
  <2>1. CASE c = <<>>
    BY <2>1
  <2>2. CASE c = << <<"close">> >>
    BY <2>2
  <2>3. ASSUME NEW e \in {"on", "off"} \X Notes, c = <<e>>
        PROVE  /\ c \in Seq(({"on", "off"} \X Notes) \cup {<<"close">>}) /\ Len(c) \in 0 .. 1
               /\ (Len(c) = 0 <=> c = <<>>)
    BY <2>3
  <2> QED BY <2>1, <2>2, <2>3 DEF CallKinds
<1>3. /\ es \o c \in Seq(({"on", "off"} \X Notes) \cup {<<"close">>})
      /\ Len(es \o c) = Len(es) + Len(c)
      /\ \A i \in 1 .. Len(es) + Len(c) : (es \o c)[i] = IF i <= Len(es) THEN es[i] ELSE c[i - Len(es)]
  BY <1>1, <1>2, ConcatProperties
<1>4. DOMAIN (es \o c) = 1 .. (Len(es) + Len(c))
  BY <1>3, LenProperties
<1>5. \A i \in 1 .. Len(es) : (es \o c)[i] = es[i] /\ es[i] \in {"on", "off"} \X Notes
  BY <1>1, <1>2, <1>3, ElementOfSeq
<1>6. c # <<>> => (es \o c)[Len(es) + 1] = c[1]
  <2>1. c # <<>> => Len(es) + 1 \in 1 .. Len(es) + Len(c) /\ ~(Len(es) + 1 <= Len(es)) /\ Len(es) + 1 - Len(es) = 1
    BY <1>1, <1>2
  <2> QED BY <1>3, <2>1
<1> QED BY <1>1, <1>2, <1>4, <1>5, <1>6

LEMMA CallIs == DriverKnown => call \in CallKinds
BY DEF DriverKnown, CallKinds

LEMMA AudioInvImplies == AudioInv => Audio!Consistent
<1> SUFFICES ASSUME AudioInv PROVE Audio!Consistent
  OBVIOUS
<1>1. call \in CallKinds
  BY CallIs DEF AudioInv
<1>2. Audio!TypeOK
  <2>1. events \in Seq({"on", "off"} \X Notes)
    BY DEF AudioInv, AudioTyped
  <2>2. /\ DOMAIN events = 1 .. Len(events) /\ Len(call) <= 1
        /\ \A i \in 1 .. Len(events) : events[i] \in {"on", "off"} \X Notes
    <3>1. /\ DOMAIN events = 1 .. Len(events) /\ Len(call) \in 0 .. 1
          /\ \A i \in 1 .. Len(events) : events[i] \in {"on", "off"} \X Notes
      BY <1>1, <2>1, AheadIs
    <3> QED BY <3>1
  <2> QED BY <2>2 DEF AudioInv, AudioTyped, DriverKnown, Audio!TypeOK
<1>3. Audio!NothingOutlives
  BY DEF AudioInv, AudioTyped, DriverKnown, JoinKnown, Opened, Audio!NothingOutlives
<1>4. Audio!NoStuckNote
  <2> SUFFICES ASSUME palive, NEW n \in Notes, synth[n] = "on", n \notin held
               PROVE  <<"off", n>> \in Audio!ToSet(events \o call)
    BY DEF Audio!NoStuckNote
  <2>1. PICK j \in DOMAIN Ahead : Ahead[j] = <<"off", n>>
    BY DEF AudioInv, DriverKnown, Opened, ReleaseComes
  <2> QED BY <2>1 DEF Audio!ToSet, Ahead
<1> QED BY <1>2, <1>3, <1>4 DEF Audio!Consistent

LEMMA AudioInitInv == Audio!Init => AudioInv
<1> SUFFICES ASSUME Audio!Init PROVE AudioInv
  OBVIOUS
<1> USE DEF Audio!Init
<1>1. <<>> \in Seq({"on", "off"} \X Notes) /\ Ahead = <<>> /\ DOMAIN Ahead = {}
  <2>1. <<>> \o <<>> = <<>>
    OBVIOUS
  <2> QED BY <2>1 DEF Ahead
<1>2. AudioTyped /\ JoinKnown /\ DriverKnown
  BY <1>1 DEF AudioTyped, JoinKnown, DriverKnown, Opened
<1>3. ReleaseComes
  BY <1>1 DEF ReleaseComes
<1> QED BY <1>2, <1>3 DEF AudioInv

\* What the keyboard has played and a release still to come stay as they are.
LEMMA NotesKept ==
    ASSUME AudioInv, UNCHANGED <<call, held, synth>>,
           \/ events' = events
           \/ at' \in {"posting", "ending", "ended"},
           at \in {"posting", "ending", "ended"} => at' \in {"posting", "ending", "ended"}
    PROVE  ReleaseComes'
BY ZenonT(60) DEF AudioInv, ReleaseComes, Ahead

\* There is room for one behind.
LEMMA OneBehind ==
    ASSUME NEW l \in Nat, NEW c \in 0 .. 1, NEW j \in 1 .. (l + c), j \notin 1 .. l
    PROVE  j = l + 1 /\ c = 1
OBVIOUS

\* The synth plays all the events there are: what it holds on to is still to be released.
LEMMA PlayedInv == ASSUME AudioInv, Audio!ProcessEvents PROVE ReleaseComes'
<1> USE DEF Audio!ProcessEvents
<1>1. call \in CallKinds /\ events \in Seq({"on", "off"} \X Notes) /\ call' = call /\ held' = held
  BY CallIs DEF AudioInv, AudioTyped
<1>2. /\ Len(events) \in Nat /\ DOMAIN events = 1 .. Len(events)
      /\ Len(call) \in 0 .. 1 /\ (Len(call) = 0 <=> call = <<>>)
      /\ DOMAIN Ahead = 1 .. (Len(events) + Len(call))
      /\ \A i \in 1 .. Len(events) : Ahead[i] = events[i]
      /\ call # <<>> => Ahead[Len(events) + 1] = call[1]
  BY <1>1, AheadIs DEF Ahead
<1>3. Ahead' = call /\ DOMAIN Ahead' = 1 .. Len(call)
  <2>1. <<>> \o call = call
    BY <1>1 DEF CallKinds
  <2>2. DOMAIN call = 1 .. Len(call)
    BY <1>1 DEF CallKinds
  <2> QED BY <1>1, <2>1, <2>2 DEF Ahead
<1> SUFFICES ASSUME NEW n \in Notes \ held
             PROVE  /\ synth'[n] = "on" => \E j \in DOMAIN Ahead' : Ahead'[j] = <<"off", n>>
                    /\ \A i \in DOMAIN Ahead' : Ahead'[i] = <<"on", n>>
                          => \E j \in DOMAIN Ahead' : i < j /\ Ahead'[j] = <<"off", n>>
  BY <1>1 DEF ReleaseComes
<1>4. /\ synth[n] = "on" => \E j \in DOMAIN Ahead : Ahead[j] = <<"off", n>>
      /\ \A i \in DOMAIN Ahead : Ahead[i] = <<"on", n>>
             => \E j \in DOMAIN Ahead : i < j /\ Ahead[j] = <<"off", n>>
  BY DEF AudioInv, ReleaseComes
<1>5. \A i \in DOMAIN Ahead' : Ahead'[i] # <<"on", n>>
  <2> SUFFICES ASSUME NEW i \in DOMAIN Ahead', Ahead'[i] = <<"on", n>> PROVE FALSE
    OBVIOUS
  <2>1. i = 1 /\ call # <<>> /\ Len(call) = 1 /\ Ahead[Len(events) + 1] = <<"on", n>>
    BY <1>2, <1>3
  <2>2. PICK j \in DOMAIN Ahead : Len(events) + 1 < j
    BY <1>2, <1>4, <2>1
  <2> QED BY <1>2, <2>1, <2>2
<1>6. ASSUME synth'[n] = "on" PROVE \E j \in DOMAIN Ahead' : Ahead'[j] = <<"off", n>>
  <2> DEFINE there == {i \in DOMAIN events : events[i] = <<"on", n>>}
                         \cup (IF synth[n] = "none" THEN {} ELSE {0})
             released == \E i \in there, j \in DOMAIN events : i < j /\ events[j] = <<"off", n>>
  <2>1. synth'[n] = IF there = {} THEN "none"
                    ELSE IF synth[n] = "fading" \/ released THEN "fading" ELSE "on"
    BY DEF Audio!Played
  <2>2. PICK i : i \in there
    BY <1>6, <2>1
  <2>3. ~released /\ synth[n] # "fading"
    BY <1>6, <2>1, <2>2
  <2>7. \A j \in DOMAIN events : i < j => events[j] # <<"off", n>>
    BY <2>2, <2>3
  <2>4. PICK j \in DOMAIN Ahead : i < j /\ Ahead[j] = <<"off", n>>
    <3>1. CASE i \in DOMAIN events /\ events[i] = <<"on", n>>
      <4>1. i \in 1 .. Len(events)
        BY <1>2, <3>1
      <4>2. i \in DOMAIN Ahead /\ Ahead[i] = <<"on", n>>
        BY <1>2, <3>1, <4>1
      <4> QED BY <1>4, <4>2
    <3>2. CASE i = 0 /\ synth[n] # "none"
      <4>1. synth[n] = "on"
        BY <2>3, <3>2 DEF AudioInv, AudioTyped
      <4> QED BY <1>2, <1>4, <3>2, <4>1
    <3> QED BY <2>2, <3>1, <3>2
  <2>5. j \notin DOMAIN events
    BY <1>2, <2>4, <2>7
  <2>6. j = Len(events) + 1 /\ Len(call) = 1 /\ call[1] = <<"off", n>>
    <3>1. j \in 1 .. (Len(events) + Len(call)) /\ j \notin 1 .. Len(events)
      BY <1>2, <2>4, <2>5
    <3>2. j = Len(events) + 1 /\ Len(call) = 1
      <4>1. Len(events) \in Nat /\ Len(call) \in 0 .. 1
        BY <1>2
      <4> QED BY <3>1, <4>1, OneBehind
    <3>3. call # <<>>
      BY <1>2, <3>2
    <3> QED BY <1>2, <2>4, <3>2, <3>3
  <2> QED BY <1>3, <2>6
<1> QED BY <1>5, <1>6

\* A key that is released says so behind everything it has said.
LEMMA PressInv == ASSUME AudioInv, NEW k \in Notes, Audio!Press(k) PROVE ReleaseComes' /\ DriverKnown'
<1> USE DEF Audio!Press
<1>1. /\ driver = "started" /\ call = <<>> /\ events' = events /\ held' \subseteq held \cup {k}
      /\ synth' = synth /\ driver' = driver /\ closed' = closed /\ palive' = palive /\ at' = at
  OBVIOUS
<1>2. PICK e \in {"on", "off"} \X Notes : call' = <<e>> /\ e = IF k \in held THEN <<"off", k>> ELSE <<"on", k>>
  OBVIOUS
<1>3. DriverKnown'
  BY <1>1, <1>2 DEF AudioInv, DriverKnown, Opened
<1>4. events \in Seq({"on", "off"} \X Notes) /\ call \in CallKinds /\ call' \in CallKinds
  BY <1>2, CallIs DEF AudioInv, AudioTyped, CallKinds
<1>5. /\ Len(events) \in Nat /\ DOMAIN Ahead = 1 .. Len(events) /\ DOMAIN Ahead' = 1 .. Len(events) + 1
      /\ \A i \in 1 .. Len(events) : Ahead'[i] = Ahead[i]
      /\ Ahead'[Len(events) + 1] = e
  <2>1. Len(<<>>) = 0 /\ Len(<<e>>) = 1 /\ <<e>>[1] = e /\ <<e>> # <<>>
    OBVIOUS
  <2>2. /\ Len(events) \in Nat /\ DOMAIN (events \o call) = 1 .. (Len(events) + Len(call))
        /\ \A i \in 1 .. Len(events) : (events \o call)[i] = events[i]
    BY <1>4, AheadIs
  <2>3. /\ DOMAIN (events \o call') = 1 .. (Len(events) + Len(call'))
        /\ \A i \in 1 .. Len(events) : (events \o call')[i] = events[i]
        /\ call' # <<>> => (events \o call')[Len(events) + 1] = call'[1]
    BY <1>4, AheadIs
  <2> QED BY <1>1, <1>2, <2>1, <2>2, <2>3 DEF Ahead
<1>6. ASSUME NEW n \in Notes \ held',
             ~(\E j \in DOMAIN Ahead' : Ahead'[j] = <<"off", n>> /\ \A i \in DOMAIN Ahead' : Ahead'[i] = <<"on", n>> => i < j)
      PROVE  /\ n \notin held /\ n # k
  <2>1. CASE k \in held
    <3>1. n = k => Ahead'[Len(events) + 1] = <<"off", n>>
      BY <1>2, <1>5, <2>1
    <3>2. n = k => FALSE
      <4> SUFFICES ASSUME n = k PROVE FALSE
        OBVIOUS
      <4>1. Len(events) + 1 \in DOMAIN Ahead' /\ Ahead'[Len(events) + 1] = <<"off", n>>
        BY <1>5, <3>1
      <4>2. PICK i \in DOMAIN Ahead' : Ahead'[i] = <<"on", n>> /\ ~(i < Len(events) + 1)
        BY <1>6, <4>1
      <4>3. i = Len(events) + 1
        BY <1>5, <4>2
      <4> QED BY <4>1, <4>2, <4>3
    <3> QED BY <1>6, <2>1, <3>2
  <2>2. CASE k \notin held
    BY <1>6, <2>2
  <2> QED BY <2>1, <2>2
<1>7. ReleaseComes'
  <2>1. at \notin {"posting", "ending", "ended"}
    BY <1>1 DEF AudioInv, DriverKnown
  <2> SUFFICES ASSUME NEW n \in Notes \ held'
               PROVE  /\ synth'[n] = "on" => \E j \in DOMAIN Ahead' : Ahead'[j] = <<"off", n>>
                      /\ \A i \in DOMAIN Ahead' : Ahead'[i] = <<"on", n>>
                            => \E j \in DOMAIN Ahead' : i < j /\ Ahead'[j] = <<"off", n>>
    BY DEF ReleaseComes
  <2>2. CASE \E j \in DOMAIN Ahead' : Ahead'[j] = <<"off", n>> /\ \A i \in DOMAIN Ahead' : Ahead'[i] = <<"on", n>> => i < j
    BY <2>2
  <2>3. CASE n \notin held /\ n # k
    <3>1. /\ synth[n] = "on" => \E j \in DOMAIN Ahead : Ahead[j] = <<"off", n>>
          /\ \A i \in DOMAIN Ahead : Ahead[i] = <<"on", n>>
                 => \E j \in DOMAIN Ahead : i < j /\ Ahead[j] = <<"off", n>>
      BY <2>1, <2>3 DEF AudioInv, ReleaseComes
    <3>2. e # <<"on", n>>
      BY <1>2, <2>3
    <3>3. \A j \in DOMAIN Ahead : j \in DOMAIN Ahead' /\ Ahead'[j] = Ahead[j]
      BY <1>5
    <3>4. \A j \in DOMAIN Ahead' : Ahead'[j] = <<"on", n>> => j \in DOMAIN Ahead
      BY <1>5, <3>2
    <3> QED BY <1>1, <3>1, <3>3, <3>4
  <2> QED BY <1>6, <2>2, <2>3
<1> QED BY <1>3, <1>7

\* MidiInProc takes in what the driver calls it with, its close last.
LEMMA ProcInv == ASSUME AudioInv, Audio!MidiInProc PROVE AudioInv'
<1> USE DEF Audio!MidiInProc, Audio!proactor, Audio!renderer
<1>1. /\ call \in CallKinds /\ events \in Seq({"on", "off"} \X Notes) /\ call # <<>> /\ call' = <<>>
      /\ Opened /\ Opened' /\ at \notin {"opening", "posting", "ending", "ended"} /\ at' = at
  BY CallIs DEF AudioInv, AudioTyped, DriverKnown, Opened
<1>2. CASE call = << <<"close">> >>
  <2>1. events' = events /\ closed' = TRUE /\ driver = "closed" /\ ~closed
    <3>1. call[1][1] = "close" /\ \A e \in {"on", "off"} \X Notes : call # <<e>>
      BY <1>2
    <3> QED BY <1>1, <1>2, <3>1 DEF AudioInv, DriverKnown
  <2>2. AudioTyped' /\ JoinKnown' /\ DriverKnown'
    BY <1>1, <2>1 DEF AudioInv, AudioTyped, JoinKnown, DriverKnown, Opened
  <2>3. /\ DOMAIN Ahead = 1 .. Len(events) + 1 /\ DOMAIN Ahead' = 1 .. Len(events) /\ Len(events) \in Nat
        /\ \A i \in 1 .. Len(events) : Ahead'[i] = Ahead[i]
        /\ Ahead[Len(events) + 1] = <<"close">>
    <3>1. /\ Len(events) \in Nat /\ DOMAIN Ahead = 1 .. (Len(events) + Len(call))
          /\ \A i \in 1 .. Len(events) : Ahead[i] = events[i]
          /\ call # <<>> => Ahead[Len(events) + 1] = call[1]
      BY <1>1, AheadIs DEF Ahead
    <3>2. <<>> \in CallKinds
      BY DEF CallKinds
    <3>3. /\ DOMAIN (events \o <<>>) = 1 .. (Len(events) + Len(<<>>))
          /\ \A i \in 1 .. Len(events) : (events \o <<>>)[i] = events[i]
      BY <1>1, <3>2, AheadIs
    <3>4. Len(call) = 1 /\ call[1] = <<"close">> /\ Len(<<>>) = 0
      BY <1>2
    <3> QED BY <1>1, <2>1, <3>1, <3>3, <3>4 DEF Ahead
  <2>4. ReleaseComes'
    <3> SUFFICES ASSUME NEW n \in Notes \ held
                 PROVE  /\ synth[n] = "on" => \E j \in DOMAIN Ahead' : Ahead'[j] = <<"off", n>>
                        /\ \A i \in DOMAIN Ahead' : Ahead'[i] = <<"on", n>>
                              => \E j \in DOMAIN Ahead' : i < j /\ Ahead'[j] = <<"off", n>>
      BY DEF ReleaseComes
    <3>1. /\ synth[n] = "on" => \E j \in DOMAIN Ahead : Ahead[j] = <<"off", n>>
          /\ \A i \in DOMAIN Ahead : Ahead[i] = <<"on", n>>
                 => \E j \in DOMAIN Ahead : i < j /\ Ahead[j] = <<"off", n>>
      BY <1>1 DEF AudioInv, ReleaseComes
    <3>2. \A j \in DOMAIN Ahead : Ahead[j] = <<"off", n>> => j \in DOMAIN Ahead' /\ Ahead'[j] = <<"off", n>>
      <4>1. <<"close">> # <<"off", n>>
        OBVIOUS
      <4> QED BY <2>3, <4>1
    <3>3. \A i \in DOMAIN Ahead' : i \in DOMAIN Ahead /\ Ahead'[i] = Ahead[i]
      BY <2>3
    <3> QED BY <3>1, <3>2, <3>3
  <2> QED BY <2>2, <2>4 DEF AudioInv
<1>3. ASSUME NEW e \in {"on", "off"} \X Notes, call = <<e>> PROVE AudioInv'
  <2>1. events' = Append(events, e) /\ closed' = closed
    <3>1. call[1] = e /\ e[1] # "close"
      BY <1>3
    <3> QED BY <3>1
  <2>2. Ahead' = Ahead /\ events' \in Seq({"on", "off"} \X Notes)
    <3>1. events' = events \o <<e>> /\ events' \in Seq({"on", "off"} \X Notes)
      BY <1>1, <2>1, AppendIsConcat, AppendProperties
    <3>2. events' \o <<>> = events'
      BY <3>1, ConcatEmptySeq
    <3> QED BY <1>1, <1>3, <3>1, <3>2 DEF Ahead
  <2>3. driver \in {"started", "stopped"}
    <3>1. call # << <<"close">> >>
      BY <1>3
    <3> QED BY <1>1, <3>1 DEF AudioInv, DriverKnown
  <2>4. AudioTyped' /\ JoinKnown' /\ DriverKnown'
    BY <1>1, <2>1, <2>2, <2>3 DEF AudioInv, AudioTyped, JoinKnown, DriverKnown, Opened
  <2>5. ReleaseComes'
    BY <2>2 DEF AudioInv, ReleaseComes
  <2> QED BY <2>4, <2>5 DEF AudioInv
<1> QED BY <1>1, <1>2, <1>3 DEF CallKinds

\* The steps that leave the keyboard's events and the synth alone.
Quiet ==
    \/ Audio!RequestStop \/ Audio!HandleStopping \/ Audio!Join \/ Audio!OpenMidiIn \/ Audio!OpenRenderer
    \/ Audio!Loop \/ Audio!WaitForSingleObject \/ Audio!OpenRenderBuffer \/ Audio!CompleteRenderBuffer
    \/ Audio!CloseRenderer \/ Audio!CloseMidiIn \/ Audio!PostJoin \/ Audio!End
    \/ Audio!WantSamples \/ Audio!Lose \/ UNCHANGED Audio!vars

LEMMA QuietInv == ASSUME AudioInv, Quiet PROVE AudioInv'
<1> USE DEF Audio!RequestStop, Audio!HandleStopping, Audio!Join, Audio!OpenMidiIn, Audio!OpenRenderer,
            Audio!Loop, Audio!WaitForSingleObject, Audio!OpenRenderBuffer, Audio!CompleteRenderBuffer,
            Audio!CloseRenderer, Audio!CloseMidiIn, Audio!PostJoin, Audio!End, Audio!WantSamples, Audio!Lose,
            Audio!vars, Audio!proactor, Audio!midi, Audio!renderer, Quiet
<1>1. UNCHANGED <<call, closed, events, held, synth>>
  OBVIOUS
<1>2. AudioTyped'
  <2>1. alevel' \in {"RUNNING", "STOPPING", "STOPPED"} /\ requested' \in BOOLEAN /\ flag' \in BOOLEAN
    BY DEF AudioInv, AudioTyped
  <2>2. aposted' \in BOOLEAN /\ palive' \in BOOLEAN
    BY DEF AudioInv, AudioTyped
  <2>3. card' \in {"closed", "open", "lost"} /\ wants' \in BOOLEAN /\ bufferOpen' \in BOOLEAN
    BY DEF AudioInv, AudioTyped
  <2>4. at' \in {"opening", "starting", "looping", "waiting", "filling", "playing", "generating",
                 "completing", "closing", "stopping", "spinning", "posting", "ending", "ended", "failed"}
    BY DEF AudioInv, AudioTyped
  <2> QED BY <1>1, <2>1, <2>2, <2>3, <2>4 DEF AudioInv, AudioTyped
<1>3. JoinKnown'
  BY DEF AudioInv, AudioTyped, JoinKnown
<1>4. DriverKnown'
  BY <1>1 DEF AudioInv, AudioTyped, DriverKnown, Opened
<1>5. at \in {"posting", "ending", "ended"} => at' \in {"posting", "ending", "ended"}
  OBVIOUS
<1>6. ReleaseComes'
  BY <1>1, <1>5, NotesKept
<1> QED BY <1>2, <1>3, <1>4, <1>6 DEF AudioInv

LEMMA AudioNextInv == AudioInv /\ [Audio!Next]_(Audio!vars) => AudioInv'
<1> SUFFICES ASSUME AudioInv, [Audio!Next]_(Audio!vars) PROVE AudioInv'
  OBVIOUS
<1> USE DEF Audio!proactor, Audio!midi, Audio!renderer
<1>1. ASSUME NEW k \in Notes, Audio!Press(k) PROVE AudioInv'
  <2>1. AudioTyped' /\ JoinKnown'
    BY <1>1 DEF Audio!Press, AudioInv, AudioTyped, JoinKnown
  <2> QED BY <1>1, <2>1, PressInv DEF AudioInv
<1>2. CASE Audio!ReportClose
  <2>1. call = <<>> /\ call' = << <<"close">> >> /\ events' = events /\ driver = "stopped" /\ driver' = "closed"
    BY <1>2 DEF Audio!ReportClose
  <2>2. AudioTyped' /\ JoinKnown' /\ DriverKnown'
    BY <1>2, <2>1 DEF Audio!ReportClose, AudioInv, AudioTyped, JoinKnown, DriverKnown, Opened
  <2>3. /\ \A i \in DOMAIN Ahead : i \in DOMAIN Ahead' /\ Ahead'[i] = Ahead[i]
        /\ \A i \in DOMAIN Ahead' : i \in DOMAIN Ahead \/ Ahead'[i] = <<"close">>
    <3>1. events \in Seq({"on", "off"} \X Notes) /\ call \in CallKinds /\ call' \in CallKinds
      BY <2>1 DEF AudioInv, AudioTyped, CallKinds
    <3>2. /\ Len(events) \in Nat /\ DOMAIN (events \o call) = 1 .. (Len(events) + Len(call))
          /\ \A i \in 1 .. Len(events) : (events \o call)[i] = events[i]
      BY <3>1, AheadIs
    <3>3. /\ DOMAIN (events \o call') = 1 .. (Len(events) + Len(call'))
          /\ \A i \in 1 .. Len(events) : (events \o call')[i] = events[i]
          /\ call' # <<>> => (events \o call')[Len(events) + 1] = call'[1]
      BY <3>1, AheadIs
    <3>4. Len(call) = 0 /\ Len(call') = 1 /\ call' # <<>> /\ call'[1] = <<"close">>
      BY <2>1
    <3> QED BY <2>1, <3>2, <3>3, <3>4 DEF Ahead
  <2>4. ReleaseComes'
    <3>1. \A n \in Notes : <<"close">> # <<"on", n>>
      OBVIOUS
    <3>2. held' = held /\ synth' = synth /\ at' = at
      BY <1>2 DEF Audio!ReportClose
    <3> QED BY <2>3, <3>1, <3>2 DEF AudioInv, ReleaseComes
  <2> QED BY <2>2, <2>4 DEF AudioInv
<1>3. CASE Audio!ProcessEvents
  <2>1. synth' \in [Notes -> {"none", "on", "fading"}] /\ events' \in Seq({"on", "off"} \X Notes)
    BY <1>3 DEF Audio!ProcessEvents, Audio!Played
  <2>2. AudioTyped' /\ JoinKnown' /\ DriverKnown'
    BY <1>3, <2>1 DEF Audio!ProcessEvents, AudioInv, AudioTyped, JoinKnown, DriverKnown, Opened
  <2> QED BY <1>3, <2>2, PlayedInv DEF AudioInv
<1>4. CASE Audio!GenerateStereoSamples
  <2>1. PICK over \in SUBSET {n \in Notes : synth[n] = "fading"} :
            synth' = [n \in Notes |-> IF n \in over THEN "none" ELSE synth[n]]
    BY <1>4 DEF Audio!GenerateStereoSamples
  <2>2. AudioTyped' /\ JoinKnown' /\ DriverKnown'
    BY <1>4, <2>1 DEF Audio!GenerateStereoSamples, AudioInv, AudioTyped, JoinKnown, DriverKnown, Opened
  <2>3. ReleaseComes'
    BY ZenonT(60), <1>4, <2>1 DEF Audio!GenerateStereoSamples, AudioInv, ReleaseComes, Ahead
  <2> QED BY <2>2, <2>3 DEF AudioInv
<1>5. CASE Audio!DestroyMidiIn
  <2>1. <<>> \in Seq({"on", "off"} \X Notes)
    OBVIOUS
  <2>2. AudioTyped' /\ JoinKnown' /\ DriverKnown'
    <3>1. UNCHANGED <<alevel, requested, flag, aposted, driver, call, closed, held, card, wants, bufferOpen, synth>>
      BY <1>5 DEF Audio!DestroyMidiIn
    <3>2. at = "spinning" /\ at' = "posting" /\ palive' = FALSE /\ events' = <<>> /\ (driver = "none" \/ closed)
      BY <1>5 DEF Audio!DestroyMidiIn
    <3>3. AudioTyped' /\ JoinKnown'
      BY <2>1, <3>1, <3>2 DEF AudioInv, AudioTyped, JoinKnown
    <3>4. driver = "none" \/ (driver = "closed" /\ closed)
      <4>1. /\ driver \in {"none", "started", "stopped", "closed"}
            /\ driver \in {"started", "stopped"} => ~closed
        BY DEF AudioInv, DriverKnown
      <4> QED BY <3>2, <4>1
    <3>5. DriverKnown'
      BY <3>1, <3>2, <3>4 DEF AudioInv, DriverKnown, Opened
    <3> QED BY <3>3, <3>5
  <2>3. ReleaseComes'
    BY <1>5 DEF Audio!DestroyMidiIn, ReleaseComes
  <2> QED BY <2>2, <2>3 DEF AudioInv
<1> QED BY <1>1, <1>2, <1>3, <1>4, <1>5, QuietInv, ProcInv
    DEF Audio!Next, Audio!ThreadStep, Audio!Done, Quiet

\* The proactor's, the audio and the keyboard driver's threads agree about what is there
\* to be called, none outlives the service, and no note sounds on for ever
\* (WindowAudioThread.cpp, MidiIn.cpp, SimpleSynth.cpp).
THEOREM AudioStaysConsistent == Audio!Spec => []Audio!Consistent
BY AudioInitInv, AudioNextInv, AudioInvImplies, PTL DEF Audio!Spec

-----------------------------------------------------------------------------
\* Every behaviour of the helpers together is one of each.

LEMMA BehavesAsTimerAndPool == MCSpec => Timing!Spec /\ Pool!Spec
<1>1. MCInit => Timing!Init /\ Pool!Init
  BY DEF MCInit
<1> USE DEF MCNext, Work, Time, Thread, Signalled, Rendering, allVars
<1>2. [MCNext]_allVars => [Timing!Next]_(Timing!vars)
  BY DEF timer, Timing!vars, Timing!runVars
<1>3. [MCNext]_allVars => [Pool!Next]_(Pool!vars)
  BY DEF threads, Pool!vars, Pool!refVars, Pool!shared, Pool!threadVars
<1> QED BY <1>1, <1>2, <1>3, PTL DEF MCSpec, Timing!Spec, Pool!Spec

LEMMA BehavesAsOthers == MCSpec => Spec /\ Console!Spec /\ Audio!Spec
<1>1. MCInit => Init /\ Console!Init /\ Audio!Init
  BY DEF MCInit
<1> USE DEF MCNext, Work, Time, Thread, Signalled, Rendering, allVars
<1>2. [MCNext]_allVars => [Next]_vars
  BY DEF vars
<1>3. [MCNext]_allVars => [Console!Next]_(Console!vars)
  BY DEF console, Console!vars, Console!svc, Console!levels
<1>4. [MCNext]_allVars => [Audio!Next]_(Audio!vars)
  BY DEF audio, Audio!vars, Audio!proactor, Audio!midi, Audio!renderer
<1> QED BY <1>1, <1>2, <1>3, <1>4, PTL DEF MCSpec, Spec, Console!Spec, Audio!Spec

\* The timer agrees with asio about the waits outstanding, the pool's two threads about
\* every item of work and the console's mutex and pointer with every thread.
THEOREM OthersStayConsistent == MCSpec => []OthersConsistent
<1>1. Timing!Consistent /\ Pool!Consistent /\ Console!Consistent => OthersConsistent
  BY DEF OthersConsistent
<1> QED BY <1>1, BehavesAsTimerAndPool, BehavesAsOthers, TimerStaysConsistent, PoolStaysConsistent,
           ConsoleStaysConsistent, PTL

\* So do the three threads behind the sound.
THEOREM SoundStaysConsistent == MCSpec => []AudioConsistent
<1>1. Audio!Consistent => AudioConsistent
  BY DEF AudioConsistent
<1> QED BY <1>1, BehavesAsOthers, AudioStaysConsistent, PTL
=============================================================================
