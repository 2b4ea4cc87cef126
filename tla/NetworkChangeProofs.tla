------------------------- MODULE NetworkChangeProofs -------------------------
(***************************************************************************)
(* Proofs about NetworkChange, for any handlers and any adapters, and      *)
(* about Win32NetworkChange, for any adapters and any number of calls.     *)
(*                                                                         *)
(* The properties of the first are inductive together with Phases, which   *)
(* says what each run level of the service means for the detection and the *)
(* handlers: it starts with a detection, before any handler, and stops     *)
(* after them all, waiting for a detection if there is one.  Those of the  *)
(* second need to know what is in the proactor's queue and in which order: *)
(* m_pending_counter counts the calls that are posted or about to be, each *)
(* before the stop of the pool's reference, and the query is in the hands  *)
(* of the pool's thread or posted, never both.                             *)
(***************************************************************************)
EXTENDS MCNetworkChange, Integers, Sequences, Functions, FiniteSets, FiniteSetTheorems, TLAPS

Phases ==
    /\ level \in {"CONSTRUCTED", "STARTING"} => \A h \in Handlers : hlevel[h] = "CONSTRUCTED"
    /\ level = "CONSTRUCTED" => thread = "idle"
    /\ level \in {"STARTING", "STOPPING"} => thread # "idle"
    /\ level \in {"STOPPING", "STOPPED"} => \A h \in Handlers : hlevel[h] = "STOPPED"

IInv == TypeOK /\ DetectingOrWaiting /\ MembersRun /\ MembersCurrent /\ Phases

\* The initial states satisfy the inductive invariant.
LEMMA InitInv == Init => IInv
<1> SUFFICES ASSUME Init PROVE IInv
  OBVIOUS
<1> USE NetworkAdaptersAssumption DEF NetworkAdaptersAssumption, Init
<1>1. TypeOK
  BY DEF TypeOK, Levels
<1>2. DetectingOrWaiting
  BY DEF DetectingOrWaiting
<1>3. MembersRun /\ MembersCurrent /\ Phases
  BY DEF MembersRun, MembersCurrent, Phases
<1> QED BY <1>1, <1>2, <1>3 DEF IInv

\* Every step keeps the variables' types.
LEMMA NextTypes == IInv /\ [Next]_vars => TypeOK'
<1> SUFFICES ASSUME IInv, [Next]_vars PROVE TypeOK'
  OBVIOUS
<1> USE NetworkAdaptersAssumption DEF NetworkAdaptersAssumption, IInv, TypeOK, Levels, env, svc, pool, hnd
<1>1. CASE Change
  BY <1>1 DEF Change
<1>2. CASE HandleStarting
  BY <1>2 DEF HandleStarting, RunOnThread
<1>3. CASE DoDetectionInThreadPool
  BY <1>3 DEF DoDetectionInThreadPool
<1>4. CASE HandleDetectionCompleted
  BY <1>4 DEF HandleDetectionCompleted, ReportChange, CheckShutdown
<1>5. CASE HandleDetectionTimerExpired
  BY <1>5 DEF HandleDetectionTimerExpired, RunOnThread
<1>6. CASE RequestStop
  BY <1>6 DEF RequestStop
<1>7. CASE HandleStopping
  BY <1>7 DEF HandleStopping, CheckShutdown
<1>8. ASSUME NEW h \in Handlers, HandlerStarting(h) PROVE TypeOK'
  BY <1>8 DEF HandlerStarting
<1>9. ASSUME NEW h \in Handlers, HandlerStopping(h) PROVE TypeOK'
  BY <1>9 DEF HandlerStopping
<1>10. CASE Stopped \/ UNCHANGED vars
  BY <1>10 DEF Stopped, vars
<1> QED BY <1>1, <1>2, <1>3, <1>4, <1>5, <1>6, <1>7, <1>8, <1>9, <1>10 DEF Next

\* Every step keeps the detection and the timer taking turns, and the phases.
LEMMA NextDetection == IInv /\ [Next]_vars => DetectingOrWaiting' /\ Phases'
<1> SUFFICES ASSUME IInv, [Next]_vars PROVE DetectingOrWaiting' /\ Phases'
  OBVIOUS
<1> USE DEF IInv, DetectingOrWaiting, Phases, env, svc, pool, hnd
<1>0. level \in Levels /\ hlevel \in [Handlers -> {"CONSTRUCTED", "RUNNING", "STOPPED"}]
      /\ detecting \in BOOLEAN /\ timer \in BOOLEAN
      /\ thread \in {"idle", "queued", "done"}
  BY DEF TypeOK
<1>1. CASE Change
  BY <1>1 DEF Change
<1>2. CASE HandleStarting
  BY <1>0, <1>2 DEF HandleStarting, RunOnThread
<1>3. CASE DoDetectionInThreadPool
  BY <1>0, <1>3 DEF DoDetectionInThreadPool
<1>4. CASE HandleDetectionCompleted
  BY <1>0, <1>4 DEF HandleDetectionCompleted, CheckShutdown, Levels
<1>5. CASE HandleDetectionTimerExpired
  BY <1>0, <1>5 DEF HandleDetectionTimerExpired, RunOnThread
<1>6. CASE RequestStop
  BY <1>6 DEF RequestStop
<1>7. CASE HandleStopping
  BY <1>0, <1>7 DEF HandleStopping, CheckShutdown
<1>8. ASSUME NEW h \in Handlers, HandlerStarting(h) PROVE DetectingOrWaiting' /\ Phases'
  BY <1>0, <1>8 DEF HandlerStarting
<1>9. ASSUME NEW h \in Handlers, HandlerStopping(h) PROVE DetectingOrWaiting' /\ Phases'
  BY <1>0, <1>9 DEF HandlerStopping
<1>10. CASE Stopped \/ UNCHANGED vars
  BY <1>10 DEF Stopped, vars
<1> QED BY <1>1, <1>2, <1>3, <1>4, <1>5, <1>6, <1>7, <1>8, <1>9, <1>10 DEF Next

\* Every step keeps the members those that run and up to date.
LEMMA NextMembers == IInv /\ [Next]_vars => MembersRun' /\ MembersCurrent'
<1> SUFFICES ASSUME IInv, [Next]_vars PROVE MembersRun' /\ MembersCurrent'
  OBVIOUS
<1> USE DEF IInv, MembersRun, MembersCurrent, env, svc, pool, hnd
<1>0. hlevel \in [Handlers -> {"CONSTRUCTED", "RUNNING", "STOPPED"}]
      /\ told \in [Handlers -> Adapters] /\ members \subseteq Handlers
  BY DEF TypeOK
<1>1. CASE Change \/ HandleStarting \/ DoDetectionInThreadPool \/ HandleDetectionTimerExpired
          \/ RequestStop \/ Stopped \/ UNCHANGED vars
  <2>1. UNCHANGED <<current, hnd>>
    BY <1>1 DEF Change, HandleStarting, DoDetectionInThreadPool, HandleDetectionTimerExpired,
                RequestStop, Stopped, vars
  <2>2. members # {} => level' = "RUNNING"
    BY <1>1 DEF Change, HandleStarting, DoDetectionInThreadPool, HandleDetectionTimerExpired,
                RequestStop, Stopped, vars
  <2> QED BY <2>1, <2>2
<1>2. CASE HandleDetectionCompleted
  <2>1. UNCHANGED <<members, hlevel>> /\ (level = "RUNNING" => level' = "RUNNING")
    BY <1>2 DEF HandleDetectionCompleted, CheckShutdown
  <2>2. MembersCurrent'
    BY <1>0, <1>2 DEF HandleDetectionCompleted, ReportChange
  <2> QED BY <2>1, <2>2
<1>3. CASE HandleStopping
  BY <1>0, <1>3 DEF HandleStopping
<1>4. ASSUME NEW h \in Handlers, HandlerStarting(h) PROVE MembersRun' /\ MembersCurrent'
  BY <1>0, <1>4 DEF HandlerStarting
<1>5. ASSUME NEW h \in Handlers, HandlerStopping(h) PROVE MembersRun' /\ MembersCurrent'
  BY <1>0, <1>5 DEF HandlerStopping
<1> QED BY <1>1, <1>2, <1>3, <1>4, <1>5 DEF Next

\* The inductive invariant holds in every behaviour.
THEOREM Invariance == Spec => []IInv
<1>1. IInv /\ [Next]_vars => IInv'
  BY NextTypes, NextDetection, NextMembers DEF IInv
<1> QED BY <1>1, InitInv, PTL DEF Spec

\* The variables keep their types.
THEOREM TypeCorrect == Spec => []TypeOK
<1>1. IInv => TypeOK
  BY DEF IInv
<1> QED BY <1>1, Invariance, PTL

\* A running service always has a detection in progress or its timer running,
\* and never both.
THEOREM KeepsDetecting == Spec => []OneAtATime
<1>1. IInv => OneAtATime
  BY DEF IInv, OneAtATime
<1> QED BY <1>1, Invariance, PTL

\* The members of the service are the handlers that run, and they know the
\* adapters the service knows.
THEOREM MembersAreCurrent == Spec => []MembersInformed
<1>1. IInv => MembersInformed
  BY DEF IInv, MembersInformed
<1> QED BY <1>1, Invariance, PTL

-----------------------------------------------------------------------------
\* The proactor's queue.

Post == {"update", "complete", "stopRef", "refStopped"}

Has(p, h) == \E i \in 1 .. Len(p) : p[i] = h

Updates(p) == {i \in 1 .. Len(p) : p[i] = "update"}

Count(p) == Cardinality(Updates(p))

\* All but the calls of the API are posted once at a time, and these before the stop.
Queue(p) ==
    /\ \A i, j \in 1 .. Len(p) : p[i] = p[j] /\ p[i] # "update" => i = j
    /\ \A i, j \in 1 .. Len(p) : p[i] = "update" /\ p[j] = "stopRef" => i < j

LEMMA CountIs ==
    ASSUME NEW p \in Seq(Post)
    PROVE  IsFiniteSet(Updates(p)) /\ Count(p) \in Nat /\ (Has(p, "update") <=> Count(p) # 0)
<1>1. Len(p) \in Nat /\ 1 .. Len(p) \in SUBSET Int
  OBVIOUS
<1>2. IsFiniteSet(1 .. Len(p))
  BY <1>1, FS_Interval
<1>3. IsFiniteSet(Updates(p))
  BY <1>2, FS_Subset DEF Updates
<1>4. Count(p) \in Nat /\ (Count(p) = 0 <=> Updates(p) = {})
  BY <1>3, FS_CardinalityType, FS_EmptySet DEF Count
<1> QED BY <1>3, <1>4 DEF Has, Updates

LEMMA Emptied ==
    ASSUME NEW p \in Seq(Post), \A h \in Post : ~Has(p, h)
    PROVE  p = <<>>
<1>1. \A i \in 1 .. Len(p) : p[i] \in Post
  OBVIOUS
<1>2. Len(p) \in Nat /\ (Len(p) # 0 => 1 \in 1 .. Len(p))
  OBVIOUS
<1>3. Len(p) = 0
  BY <1>1, <1>2 DEF Has
<1> QED BY <1>3

\* One more is posted.
LEMMA Appended ==
    ASSUME NEW p \in Seq(Post), NEW x \in Post, Queue(p),
           x # "update" => ~Has(p, x), x = "update" => ~Has(p, "stopRef"),
           NEW q, q = Append(p, x)
    PROVE  /\ q \in Seq(Post) /\ Queue(q) /\ \A h : Has(q, h) <=> Has(p, h) \/ h = x
           /\ Count(q) = Count(p) + (IF x = "update" THEN 1 ELSE 0)
<1> DEFINE n == Len(p)
<1>1. /\ n \in Nat /\ q \in Seq(Post) /\ Len(q) = n + 1 /\ q[n + 1] = x
      /\ \A i \in 1 .. n : q[i] = p[i]
  OBVIOUS
<1>2. \A i \in 1 .. n + 1 : i \in 1 .. n \/ i = n + 1
  BY <1>1
<1>3. \A i \in 1 .. n : i \in 1 .. n + 1 /\ i < n + 1
  BY <1>1
<1>4. n + 1 \in 1 .. n + 1
  BY <1>1
<1> HIDE DEF n
<1>5. \A h : Has(q, h) <=> Has(p, h) \/ h = x
  BY <1>1, <1>2, <1>3, <1>4 DEF Has, n
<1>6. Queue(q)
  BY <1>1, <1>2, <1>3 DEF Queue, Has, n
<1>7. Updates(q) = IF x = "update" THEN Updates(p) \cup {n + 1} ELSE Updates(p)
  BY <1>1, <1>2, <1>3, <1>4 DEF Updates, n
<1>8. n + 1 \notin Updates(p)
  BY <1>3 DEF Updates, n
<1>9. IsFiniteSet(Updates(p)) /\ Count(p) \in Nat
  BY CountIs
<1>10. Cardinality(Updates(p) \cup {n + 1}) = Cardinality(Updates(p)) + 1
  BY <1>8, <1>9, FS_AddElement
<1>11. Count(q) = Count(p) + (IF x = "update" THEN 1 ELSE 0)
  BY <1>7, <1>9, <1>10 DEF Count
<1> QED BY <1>1, <1>5, <1>6, <1>11

\* One more that is no call of the API.
LEMMA Posted ==
    ASSUME NEW p \in Seq(Post), NEW x \in Post, Queue(p), x # "update", ~Has(p, x),
           NEW q, q = Append(p, x)
    PROVE  /\ q \in Seq(Post) /\ Queue(q) /\ \A h : Has(q, h) <=> Has(p, h) \/ h = x
           /\ Count(q) = Count(p)
<1>1. Count(p) + 0 = Count(p)
  BY CountIs
<1> QED BY <1>1, Appended

\* The first has its turn.
LEMMA Removed ==
    ASSUME NEW p \in Seq(Post), p # <<>>, Queue(p), NEW q, q = Tail(p)
    PROVE  /\ q \in Seq(Post) /\ Queue(q) /\ Has(p, Head(p)) /\ Head(p) \in Post
           /\ \A h : h # Head(p) => (Has(q, h) <=> Has(p, h))
           /\ Head(p) # "update" => ~Has(q, Head(p))
           /\ Head(p) = "stopRef" => ~Has(p, "update")
           /\ Count(q) = Count(p) - (IF Head(p) = "update" THEN 1 ELSE 0)
<1> DEFINE n == Len(p)
           x == Head(p)
<1>1. /\ n \in Nat \ {0} /\ q \in Seq(Post) /\ Len(q) = n - 1 /\ x = p[1] /\ x \in Post
      /\ \A i \in 1 .. n - 1 : q[i] = p[i + 1]
  OBVIOUS
<1>2. /\ \A i \in 1 .. n - 1 : i \in 1 .. n /\ i + 1 \in 1 .. n /\ i + 1 # 1
      /\ \A i \in 1 .. n : i # 1 => i - 1 \in 1 .. n - 1 /\ (i - 1) + 1 = i
      /\ 1 \in 1 .. n /\ \A i \in 1 .. n : ~(i < 1)
      /\ \A i, j \in 1 .. n - 1 : (i + 1 = j + 1 => i = j) /\ (i + 1 < j + 1 => i < j)
  BY <1>1
<1> HIDE DEF n, x
<1>3. Has(p, x)
  BY <1>1, <1>2 DEF Has, n
<1>4. \A i \in 1 .. n : i # 1 => q[i - 1] = p[i]
  BY <1>1, <1>2
<1>5. ASSUME NEW h, h # x PROVE Has(q, h) <=> Has(p, h)
  <2>1. ASSUME Has(q, h) PROVE Has(p, h)
    BY <1>1, <1>2, <2>1 DEF Has, n
  <2>2. ASSUME Has(p, h) PROVE Has(q, h)
    <3>1. PICK i \in 1 .. n : p[i] = h
      BY <2>2 DEF Has, n
    <3>2. i # 1
      BY <1>1, <1>5, <3>1
    <3> QED BY <1>1, <1>2, <1>4, <3>1, <3>2 DEF Has
  <2> QED BY <2>1, <2>2
<1>6. x # "update" => ~Has(q, x)
  <2> SUFFICES ASSUME x # "update", NEW i \in 1 .. n - 1, q[i] = x PROVE FALSE
    BY <1>1 DEF Has
  <2>1. p[i + 1] = p[1] /\ p[1] # "update" /\ i + 1 \in 1 .. n /\ 1 \in 1 .. n
    BY <1>1, <1>2
  <2> QED BY <1>2, <2>1 DEF Queue, n
<1>7. x = "stopRef" => ~Has(p, "update")
  <2> SUFFICES ASSUME x = "stopRef", NEW i \in 1 .. n, p[i] = "update" PROVE FALSE
    BY DEF Has, n
  <2>1. i < 1
    BY <1>1, <1>2 DEF Queue, n
  <2> QED BY <1>2, <2>1
<1>8. Queue(q)
  <2>1. ASSUME NEW i \in 1 .. n - 1, NEW j \in 1 .. n - 1, q[i] = q[j], q[i] # "update" PROVE i = j
    <3>1. p[i + 1] = p[j + 1] /\ p[i + 1] # "update" /\ i + 1 \in 1 .. n /\ j + 1 \in 1 .. n
      BY <1>1, <1>2, <2>1
    <3>2. i + 1 = j + 1
      BY <3>1 DEF Queue, n
    <3> QED BY <1>2, <3>2
  <2>2. ASSUME NEW i \in 1 .. n - 1, NEW j \in 1 .. n - 1, q[i] = "update", q[j] = "stopRef" PROVE i < j
    <3>1. p[i + 1] = "update" /\ p[j + 1] = "stopRef" /\ i + 1 \in 1 .. n /\ j + 1 \in 1 .. n
      BY <1>1, <1>2, <2>2
    <3>2. i + 1 < j + 1
      BY <3>1 DEF Queue, n
    <3> QED BY <1>2, <3>2
  <2> QED BY <1>1, <2>1, <2>2 DEF Queue
<1>9. Count(q) = Cardinality(Updates(p) \ {1})
  <2> DEFINE S == Updates(p) \ {1}
             f == [i \in Updates(q) |-> i + 1]
  <2>1. \A i \in Updates(q) : i \in 1 .. n - 1 /\ i + 1 \in S
    BY <1>1, <1>2 DEF Updates, n
  <2>2. \A i \in S : i - 1 \in Updates(q) /\ (i - 1) + 1 = i
    BY <1>1, <1>2, <1>4 DEF Updates, n
  <2>3. \A i, j \in Updates(q) : i + 1 = j + 1 => i = j
    BY <1>2, <2>1
  <2>4. f \in Bijection(Updates(q), S)
    <3>1. f \in [Updates(q) -> S]
      BY <2>1
    <3>2. \A i, j \in Updates(q) : f[i] = f[j] => i = j
      BY <2>3
    <3>3. \A t \in S : \E i \in Updates(q) : f[i] = t
      BY <2>2
    <3> QED BY <3>1, <3>2, <3>3 DEF Bijection, Injection, Surjection, IsInjective
  <2>5. ExistsBijection(Updates(q), S)
    BY <2>4 DEF ExistsBijection
  <2>6. IsFiniteSet(Updates(q))
    BY <1>1, CountIs
  <2> HIDE DEF S, f
  <2>7. Cardinality(S) = Cardinality(Updates(q))
    BY <2>5, <2>6, FS_Bijection
  <2> QED BY <2>7 DEF Count, S
<1>10. IsFiniteSet(Updates(p)) /\ Count(p) \in Nat
  BY CountIs
<1>11. 1 \in Updates(p) <=> x = "update"
  BY <1>1, <1>2 DEF Updates, n
<1>12. Count(q) = Count(p) - (IF x = "update" THEN 1 ELSE 0)
  <2>1. Cardinality(Updates(p) \ {1})
            = IF 1 \in Updates(p) THEN Cardinality(Updates(p)) - 1 ELSE Cardinality(Updates(p))
    BY <1>10, FS_RemoveElement
  <2> QED BY <1>9, <1>10, <1>11, <2>1 DEF Count
<1> QED BY <1>1, <1>3, <1>5, <1>6, <1>7, <1>8, <1>12 DEF x

-----------------------------------------------------------------------------
\* Win32NetworkChange.

\* The calls of the API that are counted are posted, or about to be, and only a
\* registered notifier calls.
Calls ==
    /\ pending = Count(posts) + (IF api = "counted" THEN 1 ELSE 0)
    /\ notifier <=> wlevel \in {"STARTING", "RUNNING"}
    /\ notice => notifier
    /\ api = "counted" => notifier
    /\ wlevel = "CONSTRUCTED" => ~Has(posts, "update") /\ items = 0

\* An item is the pool's thread's or posted, never both.
Query ==
    /\ items = 0 <=> wthread = "idle" /\ ~Has(posts, "complete")
    /\ wthread # "idle" => ~Has(posts, "complete")

\* How far the stop is: the reference is told by a post that comes after all
\* the calls, waits for the query, and posts that it stopped.
Stop ==
    /\ wlevel \in {"CONSTRUCTED", "STARTING", "RUNNING"} => ~Has(posts, "stopRef") /\ ref = "RUNNING"
    /\ ref = "RUNNING" /\ wlevel \in {"STOPPING", "STOPPED"} => Has(posts, "stopRef")
    /\ ref # "RUNNING" => ~Has(posts, "update") /\ ~Has(posts, "stopRef")
    /\ ref = "STOPPING" => items = 1
    /\ ref = "STOPPED" => items = 0
    /\ wlevel # "STOPPED" => ~refStopped /\ (Has(posts, "refStopped") <=> ref = "STOPPED")
    /\ wlevel = "STOPPED" => ref = "STOPPED" /\ refStopped /\ posts = <<>>

Win32Inv == Win32!TypeOK /\ Queue(posts) /\ Calls /\ Query /\ Stop

\* The initial states satisfy the inductive invariant.
LEMMA Win32InitInv == Win32!Init => Win32Inv
<1> SUFFICES ASSUME Win32!Init PROVE Win32Inv
  OBVIOUS
<1> USE DEF Win32!Init
<1>1. Win32!TypeOK
  <2>1. MaxPending \in Nat /\ 0 \in 0 .. MaxPending
    BY MCNetworkChangeAssumption DEF Win32!Win32Assumption
  <2>2. {} \in Adapters
    BY NetworkAdaptersAssumption DEF None
  <2>3. pending \in 0 .. MaxPending /\ wscan \in Adapters /\ wcurrent \in Adapters
    BY <2>1, <2>2 DEF Win32!None
  <2>4. posts \in Seq(Post)
    OBVIOUS
  <2> QED BY <2>3, <2>4 DEF Win32!TypeOK, Post
<1>2. \A h : ~Has(posts, h)
  BY DEF Has
<1>3. Count(posts) = 0
  <2>1. posts \in Seq(Post)
    OBVIOUS
  <2> QED BY <1>2, <2>1, CountIs
<1>4. Queue(posts)
  BY DEF Queue
<1> HIDE DEF Win32!Init
<1>5. Calls /\ Query /\ Stop
  BY <1>2, <1>3 DEF Calls, Query, Stop, Win32!Init
<1> QED BY <1>1, <1>4, <1>5 DEF Win32Inv

\* The calls of the API and the pool's thread keep the inductive invariant.
LEMMA Win32Calls ==
    ASSUME Win32Inv, Win32!Change \/ Win32!TriggerUpdate \/ Win32!RequestAdapters
    PROVE  Win32Inv'
<1> USE DEF Win32Inv, Win32!outside, Win32!query, Win32!refVars
<1>0. posts \in Seq(Post) /\ Count(posts) \in Nat /\ pending \in Nat /\ items \in {0, 1}
  BY CountIs DEF Win32!TypeOK, Post
<1>1. CASE Win32!Change
  <2>1. Win32!TypeOK'
    BY <1>1 DEF Win32!Change, Win32!TypeOK
  <2>2. (Queue(posts) /\ Query /\ Stop)'
    BY <1>1 DEF Win32!Change, Query, Stop
  <2>3. Calls'
    BY <1>1 DEF Win32!Change, Calls
  <2> QED BY <2>1, <2>2, <2>3
<1>2. CASE Win32!TriggerUpdate /\ api = "idle"
  <2>1. Win32!TypeOK'
    <3>1. MaxPending \in Nat
      BY MCNetworkChangeAssumption DEF Win32!Win32Assumption
    <3>2. pending' \in 0 .. MaxPending
      BY <1>0, <1>2, <3>1 DEF Win32!TriggerUpdate
    <3> QED BY <1>2, <3>2 DEF Win32!TriggerUpdate, Win32!TypeOK
  <2>2. (Queue(posts) /\ Query /\ Stop)'
    BY <1>2 DEF Win32!TriggerUpdate, Query, Stop
  <2>3. Calls'
    BY <1>0, <1>2 DEF Win32!TriggerUpdate, Calls
  <2> QED BY <2>1, <2>2, <2>3
<1>3. CASE Win32!TriggerUpdate /\ api = "counted"
  <2>1. posts' = Append(posts, "update") /\ "update" \in Post
    BY <1>3 DEF Win32!TriggerUpdate, Post
  <2>2. ~Has(posts, "stopRef") /\ wlevel \in {"STARTING", "RUNNING"}
    BY <1>3 DEF Calls, Stop
  <2>3. /\ posts' \in Seq(Post) /\ Queue(posts') /\ \A h : Has(posts', h) <=> Has(posts, h) \/ h = "update"
        /\ Count(posts') = Count(posts) + 1
    BY <1>0, <2>1, <2>2, Appended
  <2>4. Win32!TypeOK'
    BY <1>3, <2>3 DEF Win32!TriggerUpdate, Win32!TypeOK, Post
  <2>5. Calls'
    BY <1>0, <1>3, <2>2, <2>3 DEF Win32!TriggerUpdate, Calls
  <2>6. Query' /\ Stop'
    BY <1>3, <2>2, <2>3 DEF Win32!TriggerUpdate, Query, Stop
  <2> QED BY <2>3, <2>4, <2>5, <2>6
<1>4. CASE Win32!RequestAdapters /\ wthread = "queued"
  BY <1>4 DEF Win32!RequestAdapters, Win32!TypeOK, Calls, Query, Stop
<1>5. CASE Win32!RequestAdapters /\ wthread = "queried"
  <2>1. posts' = Append(posts, "complete") /\ "complete" \in Post \ {"update"} /\ ~Has(posts, "complete")
    BY <1>5 DEF Win32!RequestAdapters, Post, Query
  <2>2. /\ posts' \in Seq(Post) /\ Queue(posts') /\ \A h : Has(posts', h) <=> Has(posts, h) \/ h = "complete"
        /\ Count(posts') = Count(posts)
    BY <1>0, <2>1, Posted
  <2>3. Win32!TypeOK'
    BY <1>5, <2>2 DEF Win32!RequestAdapters, Win32!TypeOK, Post
  <2>4. wlevel # "STOPPED"
    BY <1>0, <1>5 DEF Query, Stop
  <2>5. Calls' /\ Query' /\ Stop'
    BY <1>0, <1>5, <2>2, <2>4 DEF Win32!RequestAdapters, Calls, Query, Stop
  <2> QED BY <2>2, <2>3, <2>5
<1> QED BY <1>1, <1>2, <1>3, <1>4, <1>5 DEF Win32!TriggerUpdate, Win32!RequestAdapters

\* The start, the request to stop and the stop keep it.
LEMMA Win32Lifecycle ==
    ASSUME Win32Inv, Win32!HandleStarting \/ Win32!RequestStop \/ Win32!HandleStopping
    PROVE  Win32Inv'
<1> USE DEF Win32Inv, Win32!outside, Win32!query, Win32!refVars
<1>0. posts \in Seq(Post) /\ Count(posts) \in Nat
  BY CountIs DEF Win32!TypeOK, Post
<1>1. CASE Win32!HandleStarting
  <2>1. Win32!TypeOK'
    BY <1>1 DEF Win32!HandleStarting, Win32!TypeOK
  <2>2. Calls' /\ Query' /\ Stop' /\ Queue(posts)'
    BY <1>1 DEF Win32!HandleStarting, Calls, Query, Stop
  <2> QED BY <2>1, <2>2
<1>2. CASE Win32!RequestStop
  <2>1. Win32!TypeOK'
    BY <1>2 DEF Win32!RequestStop, Win32!TypeOK
  <2>2. Calls' /\ Query' /\ Stop' /\ Queue(posts)'
    BY <1>2 DEF Win32!RequestStop, Calls, Query, Stop
  <2> QED BY <2>1, <2>2
<1>3. CASE Win32!HandleStopping
  <2>1. posts' = Append(posts, "stopRef") /\ "stopRef" \in Post \ {"update"} /\ ~Has(posts, "stopRef")
    BY <1>3 DEF Win32!HandleStopping, Post, Stop
  <2>2. /\ posts' \in Seq(Post) /\ Queue(posts') /\ \A h : Has(posts', h) <=> Has(posts, h) \/ h = "stopRef"
        /\ Count(posts') = Count(posts)
    BY <1>0, <2>1, Posted
  <2>3. Win32!TypeOK'
    BY <1>3, <2>2 DEF Win32!HandleStopping, Win32!TypeOK, Post
  <2>4. Calls' /\ Query' /\ Stop'
    BY <1>0, <1>3, <2>2 DEF Win32!HandleStopping, Calls, Query, Stop
  <2> QED BY <2>2, <2>3, <2>4
<1> QED BY <1>1, <1>2, <1>3

\* What HandleUpdateRequired knows of the queue.
LEMMA CallHandled ==
    ASSUME Win32Inv, Win32!Handles("update"), NEW q, q = Tail(posts)
    PROVE  /\ q \in Seq(Post) /\ Queue(q) /\ Has(posts, "update") /\ wlevel # "STOPPED"
           /\ \A h : h # "update" => (Has(q, h) <=> Has(posts, h))
           /\ Count(posts) \in Nat /\ Count(posts) # 0 /\ Count(q) = Count(posts) - 1
<1>1. posts \in Seq(Post) /\ posts # <<>> /\ Queue(posts) /\ Head(posts) = "update"
  BY DEF Win32Inv, Win32!TypeOK, Post, Win32!Handles
<1>2. wlevel # "STOPPED"
  BY <1>1 DEF Win32Inv, Stop
<1> QED BY <1>1, <1>2, Removed, CountIs

\* What the proactor's other handlers know of it.
LEMMA OtherHandled ==
    ASSUME Win32Inv, NEW x, x # "update", Win32!Handles(x), NEW q, q = Tail(posts)
    PROVE  /\ q \in Seq(Post) /\ Queue(q) /\ Has(posts, x) /\ wlevel # "STOPPED"
           /\ ~Has(q, x) /\ \A h : h # x => (Has(q, h) <=> Has(posts, h))
           /\ Count(posts) \in Nat /\ Count(q) = Count(posts)
           /\ x = "stopRef" => ~Has(posts, "update")
<1>1. posts \in Seq(Post) /\ posts # <<>> /\ Queue(posts) /\ Head(posts) = x
  BY DEF Win32Inv, Win32!TypeOK, Post, Win32!Handles
<1>2. wlevel # "STOPPED"
  BY <1>1 DEF Win32Inv, Stop
<1>3. Count(posts) \in Nat /\ Count(q) = Count(posts) - 0
  BY <1>1, Removed, CountIs
<1>4. Count(q) = Count(posts)
  BY <1>3
<1> QED BY <1>1, <1>2, <1>3, <1>4, Removed

\* HandleUpdateRequired keeps the inductive invariant.
LEMMA Win32Updates ==
    ASSUME Win32Inv, Win32!HandleUpdateRequired
    PROVE  Win32Inv'
<1> USE DEF Win32!outside, Win32!query, Win32!refVars
<1>0. posts' = Tail(posts) /\ Win32!Handles("update")
  BY DEF Win32!HandleUpdateRequired
<1>1. /\ posts' \in Seq(Post) /\ Queue(posts') /\ Has(posts, "update") /\ wlevel # "STOPPED"
      /\ \A h : h # "update" => (Has(posts', h) <=> Has(posts, h))
      /\ Count(posts) \in Nat /\ Count(posts) # 0
      /\ Count(posts') = Count(posts) - 1
  BY <1>0, CallHandled
<1>2. items \in {0, 1} /\ ref = "RUNNING" /\ wlevel # "CONSTRUCTED"
  BY <1>1 DEF Win32Inv, Win32!TypeOK, Calls, Stop
<1>3. pending \in Nat /\ pending # 0
  BY <1>1 DEF Win32Inv, Calls
<1>4. Win32!TypeOK'
  <2>1. MaxPending \in Nat /\ pending \in 0 .. MaxPending /\ pending' = pending - 1
    BY MCNetworkChangeAssumption DEF Win32!Win32Assumption, Win32Inv, Win32!TypeOK, Win32!HandleUpdateRequired
  <2>2. pending' \in 0 .. MaxPending
    BY <1>3, <2>1
  <2>3. items' \in {0, 1}
    BY <1>2 DEF Win32!HandleUpdateRequired, Win32!RunOnThread
  <2>4. wthread' \in {"idle", "queued", "queried"} /\ another' \in BOOLEAN
    BY DEF Win32Inv, Win32!TypeOK, Win32!HandleUpdateRequired, Win32!RunOnThread
  <2> QED BY <1>1, <2>2, <2>3, <2>4 DEF Win32Inv, Win32!TypeOK, Win32!HandleUpdateRequired, Post
<1>5. Calls'
  BY <1>1, <1>2, <1>3 DEF Win32Inv, Win32!HandleUpdateRequired, Calls
<1>6. Query'
  BY <1>1, <1>2 DEF Win32Inv, Win32!HandleUpdateRequired, Win32!RunOnThread, Query
<1>7. Stop'
  BY <1>1, <1>2 DEF Win32Inv, Win32!HandleUpdateRequired, Stop
<1> QED BY <1>1, <1>4, <1>5, <1>6, <1>7 DEF Win32Inv

\* RefCheckStopped posts the end of the reference's stop when nothing is left.
LEMMA RefChecks ==
    ASSUME NEW p \in Seq(Post), Queue(p), ~Has(p, "refStopped"), NEW r, NEW n,
           Win32!RefCheckStopped(r, n, p)
    PROVE  /\ posts' \in Seq(Post) /\ Queue(posts') /\ Count(posts') = Count(p)
           /\ \A h : h # "refStopped" => (Has(posts', h) <=> Has(p, h))
           /\ Has(posts', "refStopped") <=> r = "STOPPING" /\ n = 0
           /\ ref' = IF r = "STOPPING" /\ n = 0 THEN "STOPPED" ELSE r
<1>1. CASE r = "STOPPING" /\ n = 0
  <2>1. posts' = Append(p, "refStopped") /\ ref' = "STOPPED" /\ "refStopped" \in Post \ {"update"}
    BY <1>1 DEF Win32!RefCheckStopped, Post
  <2> QED BY <1>1, <2>1, Posted
<1>2. CASE ~(r = "STOPPING" /\ n = 0)
  BY <1>2 DEF Win32!RefCheckStopped
<1> QED BY <1>1, <1>2

\* HandleRefStopping keeps it.
LEMMA Win32RefStopping ==
    ASSUME Win32Inv, Win32!HandleRefStopping
    PROVE  Win32Inv'
<1> USE DEF Win32!outside, Win32!query, Win32!refVars
<1> DEFINE q == Tail(posts)
<1>0. Win32!Handles("stopRef") /\ Win32!RefCheckStopped("STOPPING", items, q) /\ q = Tail(posts)
  BY DEF Win32!HandleRefStopping
<1> HIDE DEF q
<1>1. /\ q \in Seq(Post) /\ Queue(q) /\ Has(posts, "stopRef") /\ ~Has(q, "stopRef")
      /\ \A h : h # "stopRef" => (Has(q, h) <=> Has(posts, h))
      /\ Count(posts) \in Nat /\ Count(q) = Count(posts) /\ wlevel # "STOPPED"
  BY <1>0, OtherHandled
<1>2. ~Has(posts, "update")
  BY <1>0, OtherHandled
<1>3. wlevel \in {"STOPPING"} /\ ref = "RUNNING" /\ items \in {0, 1} /\ ~Has(posts, "refStopped")
  BY <1>1 DEF Win32Inv, Win32!TypeOK, Stop
<1>4. /\ posts' \in Seq(Post) /\ Queue(posts') /\ Count(posts') = Count(q)
      /\ \A h : h # "refStopped" => (Has(posts', h) <=> Has(q, h))
      /\ Has(posts', "refStopped") <=> items = 0
      /\ ref' = IF items = 0 THEN "STOPPED" ELSE "STOPPING"
  BY <1>0, <1>1, <1>3, RefChecks
<1>5. Win32!TypeOK'
  BY <1>4 DEF Win32Inv, Win32!TypeOK, Win32!HandleRefStopping, Post
<1>6. Calls'
  BY <1>1, <1>3, <1>4 DEF Win32Inv, Win32!HandleRefStopping, Calls
<1>7. Query' /\ Stop'
  BY <1>1, <1>2, <1>3, <1>4 DEF Win32Inv, Win32!HandleRefStopping, Query, Stop
<1> QED BY <1>4, <1>5, <1>6, <1>7 DEF Win32Inv

\* HandlUpdateComplete keeps it: when the service is stopping, when the
\* adapters are queried again, and when they are known.
LEMMA Win32Completed ==
    ASSUME Win32Inv, Win32!HandlUpdateComplete
    PROVE  Win32Inv'
<1> USE DEF Win32!outside, Win32!query, Win32!refVars
<1> DEFINE q == Tail(posts)
<1>0. Win32!Handles("complete") /\ Win32!RefCheckStopped(ref, items', q) /\ q = Tail(posts)
  BY DEF Win32!HandlUpdateComplete
<1> HIDE DEF q
<1>1. /\ q \in Seq(Post) /\ Queue(q) /\ Has(posts, "complete") /\ ~Has(q, "complete")
      /\ \A h : h # "complete" => (Has(q, h) <=> Has(posts, h))
      /\ Count(posts) \in Nat /\ Count(q) = Count(posts) /\ wlevel # "STOPPED"
  BY <1>0, OtherHandled
<1>2. items = 1 /\ wthread = "idle"
  BY <1>1 DEF Win32Inv, Win32!TypeOK, Query
<1>3. ~Has(posts, "refStopped") /\ ~refStopped /\ ref \in {"RUNNING", "STOPPING"}
  BY <1>1, <1>2 DEF Win32Inv, Win32!TypeOK, Stop
<1>4. wlevel \in {"STARTING", "RUNNING", "STOPPING"} /\ (wlevel # "STOPPING" => ref = "RUNNING")
  BY <1>1, <1>2 DEF Win32Inv, Win32!TypeOK, Calls, Stop
<1>5. ~Has(q, "refStopped")
  BY <1>1, <1>3
<1>6. /\ posts' \in Seq(Post) /\ Queue(posts') /\ Count(posts') = Count(q)
      /\ \A h : h # "refStopped" => (Has(posts', h) <=> Has(q, h))
      /\ Has(posts', "refStopped") <=> ref = "STOPPING" /\ items' = 0
      /\ ref' = IF ref = "STOPPING" /\ items' = 0 THEN "STOPPED" ELSE ref
  <2>1. PICK n : n = items' /\ Win32!RefCheckStopped(ref, n, q)
    BY <1>0
  <2> QED BY <1>1, <1>5, <2>1, RefChecks
<1>7. CASE wlevel = "STOPPING"
  <2>1. /\ items' = 0 /\ wlevel' = "STOPPING"
        /\ UNCHANGED <<another, wthread, wcurrent, wscan, pending, refStopped, wstopping, world,
                       notifier, notice, api>>
    BY <1>2, <1>3, <1>7 DEF Win32!HandlUpdateComplete, Win32!CheckShutdown
  <2>2. Win32!TypeOK'
    BY <1>3, <1>6, <2>1 DEF Win32Inv, Win32!TypeOK, Post
  <2>3. Calls'
    BY <1>1, <1>6, <1>7, <2>1 DEF Win32Inv, Calls
  <2>4. Query' /\ Stop'
    BY <1>1, <1>2, <1>3, <1>6, <1>7, <2>1 DEF Win32Inv, Query, Stop
  <2> QED BY <1>6, <2>2, <2>3, <2>4 DEF Win32Inv
<1>8. CASE wlevel # "STOPPING" /\ another
  <2>1. /\ items' = 1 /\ wthread' = "queued" /\ another' = FALSE
        /\ UNCHANGED <<wlevel, wcurrent, wscan, pending, refStopped, wstopping, world, notifier,
                       notice, api>>
    BY <1>2, <1>8 DEF Win32!HandlUpdateComplete
  <2>2. Win32!TypeOK'
    BY <1>3, <1>6, <2>1 DEF Win32Inv, Win32!TypeOK, Post
  <2>3. Calls'
    BY <1>1, <1>4, <1>6, <2>1 DEF Win32Inv, Calls
  <2>4. Query' /\ Stop'
    BY <1>1, <1>2, <1>3, <1>4, <1>6, <1>8, <2>1 DEF Win32Inv, Query, Stop
  <2> QED BY <1>6, <2>2, <2>3, <2>4 DEF Win32Inv
<1>9. CASE wlevel # "STOPPING" /\ ~another
  <2>1. /\ items' = 0 /\ wlevel' = "RUNNING" /\ wcurrent' = wscan
        /\ UNCHANGED <<another, wthread, wscan, pending, refStopped, wstopping, world, notifier,
                       notice, api>>
    BY <1>2, <1>9 DEF Win32!HandlUpdateComplete
  <2>2. Win32!TypeOK'
    BY <1>3, <1>6, <2>1 DEF Win32Inv, Win32!TypeOK, Post
  <2>3. Calls'
    BY <1>1, <1>4, <1>6, <1>9, <2>1 DEF Win32Inv, Calls
  <2>4. Query' /\ Stop'
    BY <1>1, <1>2, <1>3, <1>4, <1>6, <1>9, <2>1 DEF Win32Inv, Query, Stop
  <2> QED BY <1>6, <2>2, <2>3, <2>4 DEF Win32Inv
<1> QED BY <1>7, <1>8, <1>9

\* The end of the reference's stop keeps it: it ends the service's.
LEMMA Win32RefStopped ==
    ASSUME Win32Inv, Win32!RefStopped
    PROVE  Win32Inv'
<1> USE DEF Win32!outside, Win32!query, Win32!refVars
<1>0. Win32!Handles("refStopped") /\ posts' = Tail(posts)
  BY DEF Win32!RefStopped
<1>1. /\ posts' \in Seq(Post) /\ Queue(posts') /\ Has(posts, "refStopped") /\ ~Has(posts', "refStopped")
      /\ \A h : h # "refStopped" => (Has(posts', h) <=> Has(posts, h))
      /\ Count(posts) \in Nat /\ Count(posts') = Count(posts) /\ wlevel # "STOPPED"
  BY <1>0, OtherHandled
<1>2. ref = "STOPPED" /\ wlevel = "STOPPING" /\ items = 0 /\ wthread = "idle"
  BY <1>1 DEF Win32Inv, Win32!TypeOK, Query, Stop
<1>3. ~Has(posts, "update") /\ ~Has(posts, "stopRef") /\ ~Has(posts, "complete")
  BY <1>2 DEF Win32Inv, Query, Stop
<1>4. \A h \in Post : ~Has(posts', h)
  BY <1>1, <1>3 DEF Post
<1>5. posts' = <<>>
  BY <1>1, <1>4, Emptied
<1>6. Count(posts) = 0
  BY <1>3, CountIs DEF Win32Inv, Win32!TypeOK, Post
<1>7. pending = 0
  <2>1. api = "idle"
    BY <1>2 DEF Win32Inv, Win32!TypeOK, Calls
  <2> QED BY <1>6, <2>1 DEF Win32Inv, Calls
<1>8. /\ wlevel' = "STOPPED" /\ refStopped' = TRUE
      /\ UNCHANGED <<another, wthread, wcurrent, wscan, pending, items, ref, wstopping, world,
                     notifier, notice, api>>
  BY <1>2, <1>7 DEF Win32!RefStopped, Win32!CheckShutdown
<1>9. Win32!TypeOK'
  BY <1>1, <1>8 DEF Win32Inv, Win32!TypeOK, Post
<1>10. Calls'
  BY <1>1, <1>2, <1>8 DEF Win32Inv, Calls
<1>11. Query' /\ Stop'
  BY <1>1, <1>2, <1>3, <1>5, <1>8 DEF Win32Inv, Query, Stop
<1> QED BY <1>1, <1>9, <1>10, <1>11 DEF Win32Inv

\* Every step keeps the inductive invariant.
LEMMA Win32Steps == Win32Inv /\ [Win32!Next]_(Win32!vars) => Win32Inv'
<1> SUFFICES ASSUME Win32Inv, [Win32!Next]_(Win32!vars) PROVE Win32Inv'
  OBVIOUS
<1>1. CASE Win32!Stopped \/ UNCHANGED Win32!vars
  <2>1. UNCHANGED <<world, notifier, notice, api, wlevel, wstopping, pending, another, ref,
                    refStopped, items, wthread, wscan, wcurrent, posts>>
    BY <1>1 DEF Win32!Stopped, Win32!vars, Win32!outside, Win32!query, Win32!refVars
  <2> QED BY <2>1 DEF Win32Inv, Win32!TypeOK, Calls, Query, Stop
<1> QED BY <1>1, Win32Calls, Win32Lifecycle, Win32Updates, Win32Completed, Win32RefStopping,
           Win32RefStopped DEF Win32!Next, Win32!Handler

\* The service's three threads agree in every state the invariant allows.
LEMMA Win32Agrees == Win32Inv => Win32!Consistent
<1> SUFFICES ASSUME Win32Inv PROVE Win32!Consistent
  OBVIOUS
<1>1. posts \in Seq(Post) /\ Queue(posts)
  BY DEF Win32Inv, Win32!TypeOK, Post
<1>2. Win32!RefRunsWhenUsed
  <2>1. \A h : Win32!Handles(h) => Has(posts, h) /\ posts # <<>>
    BY <1>1, Removed DEF Win32!Handles
  <2>2. Win32!Handles("update") => ref = "RUNNING"
    BY <2>1 DEF Win32Inv, Stop
  <2>3. Win32!Handles("complete") /\ wlevel # "STOPPING" => ref = "RUNNING"
    BY <2>1 DEF Win32Inv, Win32!TypeOK, Stop
  <2> QED BY <2>2, <2>3 DEF Win32!RefRunsWhenUsed
<1>3. Win32!StoppedIsQuiet
  <2> SUFFICES ASSUME wlevel = "STOPPED"
               PROVE  /\ ~notifier /\ api = "idle" /\ wthread = "idle"
                      /\ posts = <<>> /\ pending = 0 /\ refStopped
    BY DEF Win32!StoppedIsQuiet
  <2>1. posts = <<>> /\ refStopped /\ ref = "STOPPED" /\ items = 0
    BY DEF Win32Inv, Stop
  <2>2. ~notifier /\ api = "idle" /\ wthread = "idle"
    BY <2>1 DEF Win32Inv, Win32!TypeOK, Calls, Query
  <2>3. Count(posts) = 0
    <3>1. ~Has(posts, "update")
      BY <2>1 DEF Has
    <3> QED BY <1>1, <3>1, CountIs
  <2>4. pending = 0
    BY <2>2, <2>3 DEF Win32Inv, Calls
  <2> QED BY <2>1, <2>2, <2>4
<1> QED BY <1>2, <1>3 DEF Win32Inv, Win32!Consistent

\* The Windows service's three threads agree in every behaviour: the pool is
\* used while its reference runs, and a stopped service is in no thread's hands.
THEOREM Win32StaysConsistent == Win32!Spec => []Win32!Consistent
<1> QED BY Win32InitInv, Win32Steps, Win32Agrees, PTL DEF Win32!Spec

\* So it does in the composition that the runs check, whatever is built.
THEOREM BuiltStaysConsistent == MCSpec => []Win32Consistent
<1>1. MCInit => Win32Inv
  BY Win32InitInv DEF MCInit
<1>2. Win32Inv /\ [MCNext]_allVars => Win32Inv'
  <2> SUFFICES ASSUME Win32Inv, [MCNext]_allVars PROVE Win32Inv'
    OBVIOUS
  <2>1. CASE Windows(Win32!Next)
    BY <2>1, Win32Steps DEF Windows
  <2>2. CASE Linux(Next) \/ UNCHANGED allVars
    <3>1. world' \in Adapters
      BY <2>2 DEF Linux, Next, Change, HandleStarting, DoDetectionInThreadPool,
         HandleDetectionCompleted, HandleDetectionTimerExpired, RequestStop, HandleStopping,
         HandlerStarting, HandlerStopping, Stopped, vars, env, allVars, Win32Inv, Win32!TypeOK
    <3>2. UNCHANGED <<notifier, notice, api, wlevel, wstopping, pending, another, ref,
                      refStopped, items, wthread, wscan, wcurrent, posts>>
      BY <2>2 DEF Linux, allVars, win32
    <3> QED BY <3>1, <3>2 DEF Win32Inv, Win32!TypeOK, Calls, Query, Stop
  <2> QED BY <2>1, <2>2 DEF MCNext
<1>3. Win32Inv => Win32Consistent
  BY Win32Agrees DEF Win32Consistent
<1> QED BY <1>1, <1>2, <1>3, PTL DEF MCSpec
=============================================================================
