---------------------------- MODULE DiscoveryProofs ----------------------------
(***************************************************************************)
(* Proofs about SSDP discovery, for any addresses, adverts, searches and   *)
(* devices and however often adapters change and datagrams are lost; and   *)
(* about UdpSocket, however many datagrams the kernel keeps.               *)
(***************************************************************************)
EXTENDS MCDiscovery, FiniteSetTheorems, SequenceTheorems, TLAPS

-----------------------------------------------------------------------------
\* UdpSocket: Consistent is inductive together with two facts: reading is enabled
\* only in RUNNING, and no read is started while the callback runs that was not
\* asked for in it.

Results == {"received", "error", "aborted"}

StopsOnRequest == ulevel # "RUNNING" => ustopping /\ ~busy

SocketInv == Socket!Consistent /\ StopsOnRequest

\* The initial state satisfies the inductive invariant.
LEMMA SocketInitInv == Socket!Init => SocketInv
<1> SUFFICES ASSUME Socket!Init PROVE SocketInv
  OBVIOUS
<1>1. Socket!TypeOK
  <2>1. done \in Seq(Results)
    BY DEF Socket!Init
  <2> QED BY <2>1 DEF Socket!Init, Socket!TypeOK, Results
<1>2. Socket!OneReader
  BY DEF Socket!Init, Socket!OneReader
<1>3. StopsOnRequest
  BY DEF Socket!Init, StopsOnRequest
<1> QED BY <1>1, <1>2, <1>3 DEF SocketInv, Socket!Consistent

\* A read is started when none is under way, so that there is one then.
LEMMA StartReadInv ==
    ASSUME Socket!TypeOK, pending = reading + Len(done), pending <= 1, Socket!StartRead, done' = done
    PROVE  pending' \in Nat /\ reading' \in Nat /\ pending' = reading' + Len(done') /\ pending' = 1
<1>1. Len(done) \in Nat
  BY DEF Socket!TypeOK
<1>2. CASE pending = 0
  BY <1>1, <1>2 DEF Socket!StartRead, Socket!TypeOK
<1>3. CASE pending = 1
  BY <1>1, <1>3 DEF Socket!StartRead, Socket!TypeOK
<1> QED BY <1>2, <1>3 DEF Socket!TypeOK

\* Every step keeps the inductive invariant.
LEMMA SocketNextInv == SocketInv /\ [Socket!Next]_(Socket!vars) => SocketInv'
<1> SUFFICES ASSUME SocketInv, [Socket!Next]_(Socket!vars) PROVE SocketInv'
  OBVIOUS
<1> USE DEF SocketInv, Socket!Consistent, StopsOnRequest
<1>0. done \in Seq(Results) /\ Len(done) \in Nat
  BY DEF Socket!TypeOK, Results
<1>1. CASE Socket!EnableReading
  <2>1. pending' \in Nat /\ reading' \in Nat /\ pending' = reading' + Len(done') /\ pending' = 1
    BY <1>1, StartReadInv DEF Socket!EnableReading, Socket!OneReader
  <2>2. Socket!TypeOK'
    BY <1>1, <2>1 DEF Socket!EnableReading, Socket!TypeOK
  <2>3. Socket!OneReader' /\ StopsOnRequest'
    BY <1>1, <2>1 DEF Socket!EnableReading, Socket!OneReader
  <2> QED BY <2>2, <2>3
<1>2. CASE Socket!DisableReading
  BY <1>2 DEF Socket!DisableReading, Socket!TypeOK, Socket!OneReader
<1>3. CASE Socket!Arrive
  BY <1>3 DEF Socket!Arrive, Socket!TypeOK, Socket!OneReader
<1>4. CASE Socket!Receive
  <2>1. done' \in Seq(Results) /\ Len(done') = Len(done) + 1
    BY <1>4, <1>0, AppendProperties DEF Socket!Receive, Results
  <2>2. Socket!TypeOK'
    BY <1>4, <2>1 DEF Socket!Receive, Socket!TypeOK, Results
  <2>3. Socket!OneReader' /\ StopsOnRequest'
    BY <1>0, <1>4, <2>1 DEF Socket!Receive, Socket!OneReader, Socket!TypeOK
  <2> QED BY <2>2, <2>3
<1>5. CASE Socket!ReceiveFails
  <2>1. done' \in Seq(Results) /\ Len(done') = Len(done) + 1
    BY <1>5, <1>0, AppendProperties DEF Socket!ReceiveFails, Results
  <2>2. Socket!TypeOK'
    BY <1>5, <2>1 DEF Socket!ReceiveFails, Socket!TypeOK, Results
  <2>3. Socket!OneReader' /\ StopsOnRequest'
    BY <1>0, <1>5, <2>1 DEF Socket!ReceiveFails, Socket!OneReader, Socket!TypeOK
  <2> QED BY <2>2, <2>3
<1>6. CASE Socket!HandleRead
  <2>1. done' \in Seq(Results) /\ Len(done') = Len(done) - 1 /\ Len(done) >= 1
    BY <1>6, <1>0, HeadTailProperties, EmptySeq DEF Socket!HandleRead
  <2>2. pending = 1 /\ reading = 0 /\ Len(done') = 0 /\ pending' = 0 /\ reading' = 0
    BY <1>0, <1>6, <2>1 DEF Socket!HandleRead, Socket!OneReader, Socket!TypeOK
  <2>3. Socket!TypeOK'
    BY <1>6, <2>1, <2>2 DEF Socket!HandleRead, Socket!TypeOK, Socket!CheckShutdown, Results
  <2>4. CASE ulevel # "STOPPING" /\ enabled
    BY <1>6, <2>2, <2>3, <2>4 DEF Socket!HandleRead, Socket!OneReader
  <2>5. CASE ~(ulevel # "STOPPING" /\ enabled)
    BY <1>6, <2>2, <2>3, <2>5 DEF Socket!HandleRead, Socket!OneReader, Socket!CheckShutdown
  <2> QED BY <2>4, <2>5
<1>7. CASE Socket!CallbackReturns
  <2>1. CASE enabled
    <3>1. pending' \in Nat /\ reading' \in Nat /\ pending' = reading' + Len(done') /\ pending' = 1
      BY <1>7, <2>1, StartReadInv DEF Socket!CallbackReturns, Socket!OneReader
    <3>2. Socket!TypeOK'
      BY <1>7, <3>1 DEF Socket!CallbackReturns, Socket!TypeOK
    <3>3. Socket!OneReader' /\ StopsOnRequest'
      BY <1>7, <2>1, <3>1 DEF Socket!CallbackReturns, Socket!OneReader
    <3> QED BY <3>2, <3>3
  <2>2. CASE ~enabled
    BY <1>7, <2>2 DEF Socket!CallbackReturns, Socket!TypeOK, Socket!OneReader
  <2> QED BY <2>1, <2>2
<1>8. CASE Socket!RequestStop
  BY <1>8 DEF Socket!RequestStop, Socket!TypeOK, Socket!OneReader
<1>9. CASE Socket!HandleStopping
  <2>1. CASE pending = 0
    BY <1>9, <2>1 DEF Socket!HandleStopping, Socket!TypeOK, Socket!OneReader
  <2>2. CASE pending = 1
    <3> DEFINE aborted == [i \in 1 .. reading |-> "aborted"]
    <3>1. aborted \in Seq(Results) /\ Len(aborted) = reading
      BY <1>0 DEF Socket!TypeOK, Results
    <3>2. done' = done \o aborted /\ reading' = 0 /\ pending' = pending
      <4>1. pending # 0
        BY <2>2
      <4> QED BY <1>9, <4>1, Zenon DEF Socket!HandleStopping
    <3>3. done' \in Seq(Results) /\ Len(done') = Len(done) + reading
      <4>1. /\ done \o aborted \in Seq(Results)
            /\ Len(done \o aborted) = Len(done) + Len(aborted)
        <5> HIDE DEF aborted
        <5> QED BY <1>0, <3>1, ConcatProperties, Zenon
      <4> QED BY <3>1, <3>2, <4>1
    <3>4. Socket!TypeOK'
      BY <1>9, <2>2, <3>2, <3>3 DEF Socket!HandleStopping, Socket!TypeOK, Results
    <3>5. pending' = reading' + Len(done')
      BY <1>0, <3>2, <3>3 DEF Socket!OneReader, Socket!TypeOK
    <3>6. Socket!OneReader' /\ StopsOnRequest'
      BY <1>9, <2>2, <3>2, <3>5 DEF Socket!HandleStopping, Socket!OneReader
    <3> QED BY <3>4, <3>6
  <2> QED BY <1>0, <2>1, <2>2 DEF Socket!OneReader, Socket!TypeOK
<1>10. CASE UNCHANGED Socket!vars
  BY <1>10 DEF Socket!vars, Socket!TypeOK, Socket!OneReader
<1> QED BY <1>1, <1>2, <1>3, <1>4, <1>5, <1>6, <1>7, <1>8, <1>9, <1>10 DEF Socket!Next

\* m_pending_reads counts the handlers still to come, no two reads share the
\* buffer, a stopped socket has none, and one whose reading is enabled listens.
THEOREM SocketStaysConsistent == Socket!Spec => []Socket!Consistent
<1>1. Socket!Spec => []SocketInv
  BY SocketInitInv, SocketNextInv, PTL DEF Socket!Spec
<1>2. SocketInv => Socket!Consistent
  BY DEF SocketInv
<1> QED BY <1>1, <1>2, PTL

-----------------------------------------------------------------------------
\* SsdpDiscovery: the check follows the adapters.

DiscoveryTyped ==
    /\ TypeOK
    /\ level = "CONSTRUCTED" => ~check /\ Present = {}
    /\ level = "STOPPED" => ~check /\ Present = {}
    /\ ~check => late = {}
    /\ heard \subseteq Present \X Advert /\ asked \subseteq Present \X Search

\* While no check is scheduled none is due: nothing has stopped, in RUNNING every address
\* has an interface and every one that runs its address, and in STOPPING all stop and one
\* at least has yet to.
Followed ==
    /\ ~check => \A s \in Slot : iface[s] # "STOPPED" /\ (iface[s] = "RUNNING" => current[s[1]] > 0)
    /\ level = "RUNNING" /\ ~check => \A x \in Address : current[x] > 0 => \E s \in Present : s[1] = x
    /\ level = "STOPPING" /\ ~check => Present # {} /\ \A s \in Slot : iface[s] # "RUNNING"

\* What a search knows, and what its owner has seen before it has begun.
Known ==
    /\ DevicesReachable
    /\ \A q \in Search : search[q].level = "CONSTRUCTED" => devices[q] = seen[q] /\ \A d \in Device : devices[q][d] = Nowhere

\* That s has yet to hear what advert a has to say.
Unaware(s, a) ==
    /\ iface[s] = "RUNNING" /\ s[1] \in Located
    /\ \/ advert[a].level = "RUNNING" /\ <<s, a>> \notin heard
       \/ advert[a].level \in {"STOPPING", "STOPPED"} /\ <<s, a>> \in heard

\* One message may yet miss it on account of its address, which has gone.
Missable(s, a) == IF current[s[1]] = 0 /\ a \notin late THEN 1 ELSE 0

\* Each message that missed it did so for a datagram lost or an adapter that changed.
Accounted ==
    /\ \A s \in Slot : iface[s] = "RUNNING" /\ current[s[1]] = 0 => changes >= 1
    /\ \A s \in Slot, a \in Advert :
          Unaware(s, a) => advert[a].count + Missable(s, a) <= lost + changes
    /\ \A a \in Advert :
          /\ advert[a].timer = "single" => advert[a].level = "RUNNING" /\ advert[a].count = 4
          /\ advert[a].level = "STOPPED" => advert[a].count = 4
          /\ advert[a].level \in {"CONSTRUCTED", "STOPPED"} => advert[a].timer = "off"

IInv == DiscoveryTyped /\ Followed /\ Known /\ Accounted

\* An interface is one of those present once it is there.
LEMMA PresentIs == \A s \in Slot : s \in Present <=> iface[s] # "none"
BY DEF Present

\* It implies both invariants.
LEMMA IInvImplies == IInv => Consistent /\ NeighboursKnow
<1> SUFFICES ASSUME IInv PROVE Consistent /\ NeighboursKnow
  OBVIOUS
<1>0. TypeOK
  BY DEF IInv, DiscoveryTyped
<1>1. ASSUME level \in {"RUNNING", "STOPPING"}, ~check, \A s \in Present : iface[s] = "RUNNING"
      PROVE  level = "RUNNING" /\ {s[1] : s \in Present} = {x \in Address : current[x] > 0}
  <2>1. level = "RUNNING"
    <3>1. level = "STOPPING" => \E s \in Present : iface[s] # "RUNNING"
      BY <1>1 DEF IInv, Followed, Present
    <3> QED BY <1>1, <3>1
  <2>2. \A s \in Present : s[1] \in Address /\ current[s[1]] > 0
    BY <1>1 DEF IInv, Followed, Present, Slot
  <2>3. \A x \in Address : current[x] > 0 => \E s \in Present : s[1] = x
    BY <1>1, <2>1 DEF IInv, Followed
  <2> QED BY <2>1, <2>2, <2>3
<1>2. Consistent
  <2>1. CheckedWhenQuiet
    BY <1>1 DEF CheckedWhenQuiet
  <2> QED BY <2>1 DEF IInv, DiscoveryTyped, Known, Consistent
<1>3. NeighboursKnow
  <2> SUFFICES ASSUME changes + lost <= 3, NEW a \in Advert, NEW s \in Slot,
                      iface[s] = "RUNNING", s[1] \in Located
               PROVE  /\ advert[a].timer = "single" => <<s, a>> \in heard
                      /\ advert[a].level = "STOPPED" => <<s, a>> \notin heard
    BY DEF NeighboursKnow
  <2>1. changes \in Nat /\ lost \in Nat /\ Missable(s, a) \in 0 .. 1 /\ advert[a].count \in 0 .. 4
    BY <1>0, SsdpAssumption DEF TypeOK, Timed, Missable, SsdpAssumption
  <2>2. Unaware(s, a) => advert[a].count + Missable(s, a) <= lost + changes
    BY DEF IInv, Accounted
  <2>3. advert[a].count = 4 => ~Unaware(s, a)
    BY <2>1, <2>2
  <2>4. /\ advert[a].timer = "single" => advert[a].level = "RUNNING" /\ advert[a].count = 4
        /\ advert[a].level = "STOPPED" => advert[a].count = 4
    BY DEF IInv, Accounted
  <2> QED BY <2>3, <2>4 DEF Unaware
<1> QED BY <1>2, <1>3

LEMMA InitInv == Init => IInv
<1> SUFFICES ASSUME Init PROVE IInv
  OBVIOUS
<1> USE DEF Init
<1>1. TypeOK
  <2>1. iface \in [Slot -> {"none", "RUNNING", "STOPPING", "SILENT", "STOPPED"}]
    OBVIOUS
  <2>2. Idle \in Timed
    BY DEF Idle, Timed, Level
  <2>3. advert \in [Advert -> Timed] /\ search \in [Search -> Timed]
    BY <2>2 DEF Idle
  <2>4. /\ devices \in [Search -> [Device -> Address \cup {Nowhere}]]
        /\ seen \in [Search -> [Device -> Address \cup {Nowhere}]]
    OBVIOUS
  <2>5. changes \in 0 .. MaxChanges /\ lost \in 0 .. MaxLost
    BY SsdpAssumption
  <2> QED BY <2>1, <2>3, <2>4, <2>5 DEF TypeOK, Level
<1>2. Present = {}
  BY DEF Present
<1>3. DiscoveryTyped
  BY <1>1, <1>2 DEF DiscoveryTyped
<1>4. Followed
  BY DEF Followed
<1>5. Known
  BY DEF Known, DevicesReachable, Idle
<1>6. Accounted
  BY DEF Accounted, Unaware, Idle
<1> QED BY <1>3, <1>4, <1>5, <1>6 DEF IInv

\* There are finitely many interfaces, so that sending counts what is lost.
LEMMA SlotsFinite == IsFiniteSet(Slot) /\ \A S \in SUBSET Slot : IsFiniteSet(S) /\ Cardinality(S) \in Nat
<1>1. IsFiniteSet(1 .. 2)
  <2>1. 1 \in Int /\ 2 \in Int
    OBVIOUS
  <2> QED BY <2>1, FS_Interval, Zenon
<1>2. IsFiniteSet(Slot)
  BY <1>1, SsdpAssumption, FS_Product DEF Slot
<1> QED BY <1>2, FS_Subset, FS_CardinalityType

\* A message that misses an interface whose address is there is lost.
LEMMA Sending ==
    ASSUME TypeOK, NEW out \in SUBSET Slot, NEW reached, SentTo(out, reached)
    PROVE  /\ reached \subseteq out /\ lost \in Nat /\ lost' \in 0 .. MaxLost /\ lost' >= lost
           /\ \A s \in out \ reached : current[s[1]] > 0 => lost' >= lost + 1
<1> DEFINE missed == {s \in out : current[s[1]] > 0} \ reached
<1>1. missed \in SUBSET Slot /\ IsFiniteSet(missed) /\ Cardinality(missed) \in Nat
  BY SlotsFinite
<1>2. lost \in Nat /\ MaxLost \in Nat
  BY SsdpAssumption DEF TypeOK
<1>3. lost' = lost + Cardinality(missed) /\ lost' <= MaxLost /\ reached \subseteq out
  BY DEF SentTo
<1>4. ASSUME NEW s \in out \ reached, current[s[1]] > 0 PROVE Cardinality(missed) # 0
  <2>1. s \in missed
    BY <1>4
  <2> QED BY <1>1, <2>1, FS_EmptySet
<1> HIDE DEF missed
<1> QED BY <1>1, <1>2, <1>3, <1>4

\* What a step leaves alone it does not disturb.
LEMMA Undisturbed ==
    ASSUME IInv
    PROVE  /\ UNCHANGED <<level, check, iface, current>> => Followed'
           /\ UNCHANGED <<devices, seen, work, search, iface>> => Known'
           /\ UNCHANGED <<iface, current, late, advert, heard, lost, changes>> => Accounted'
<1>1. ASSUME UNCHANGED <<level, check, iface, current>> PROVE Followed'
  BY <1>1 DEF IInv, Followed, Present
<1>2. ASSUME UNCHANGED <<devices, seen, work, search, iface>> PROVE Known'
  BY <1>2 DEF IInv, Known, DevicesReachable, Present
<1>3. ASSUME UNCHANGED <<iface, current, late, advert, heard, lost, changes>> PROVE Accounted'
  BY <1>3 DEF IInv, Accounted, Unaware, Missable
<1> QED BY <1>1, <1>2, <1>3

\* An interface whose address has gone, and may be missed, waits for the check.
LEMMA GoneWaits ==
    ASSUME IInv, NEW s \in Slot, iface[s] = "RUNNING"
    PROVE  current[s[1]] \in 0 .. 2 /\ (~check => current[s[1]] > 0)
<1>1. s[1] \in Address
  BY DEF Slot
<1>2. current \in [Address -> 0 .. 2]
  BY SsdpAssumption DEF IInv, DiscoveryTyped, TypeOK
<1> QED BY <1>1, <1>2 DEF IInv, Followed

LEMMA Records ==
    ASSUME NEW l \in Level, NEW c \in 0 .. 4, NEW t \in {"off", "periodic", "single"}
    PROVE  [level |-> l, count |-> c, timer |-> t] \in Timed
BY DEF Timed

LEMMA Fields ==
    ASSUME NEW r \in Timed
    PROVE  r.level \in Level /\ r.count \in 0 .. 4 /\ r.timer \in {"off", "periodic", "single"}
BY DEF Timed

\* One that is begun anew.
LEMMA BegunIs ==
    ASSUME NEW l \in Level
    PROVE  /\ Begun(l) \in Timed /\ Begun(l).level = l /\ Begun(l).count = 0
           /\ Begun(l).timer = "periodic"
<1>1. Begun(l) = [level |-> l, count |-> 0, timer |-> "periodic"]
  BY DEF Begun
<1>2. Begun(l).level = l /\ Begun(l).count = 0 /\ Begun(l).timer = "periodic"
  BY <1>1
<1>3. [level |-> l, count |-> 0, timer |-> "periodic"] \in Timed
  BY DEF Timed
<1> QED BY <1>1, <1>2, <1>3

\* One whose timer has fired.
LEMMA CountedIs ==
    ASSUME NEW r \in Timed
    PROVE  /\ Counted(r) \in Timed /\ Counted(r).level = r.level
           /\ Counted(r).count = IF r.count < 4 THEN r.count + 1 ELSE 4
           /\ Counted(r).timer = IF Counted(r).count > 3 THEN "single" ELSE r.timer
<1> DEFINE n == IF r.count < 4 THEN r.count + 1 ELSE 4
           t == IF n > 3 THEN "single" ELSE r.timer
<1>1. Counted(r) = [level |-> r.level, count |-> n, timer |-> t]
  BY DEF Counted
<1>2. n \in 0 .. 4 /\ t \in {"off", "periodic", "single"}
  BY Fields
<1>3. Counted(r).level = r.level /\ Counted(r).count = n /\ Counted(r).timer = t
  BY <1>1
<1> HIDE DEF n, t
<1>4. [level |-> r.level, count |-> n, timer |-> t] \in Timed
  BY <1>2, Fields DEF Timed
<1>5. Counted(r) \in Timed
  BY <1>1, <1>4
<1> QED BY <1>3, <1>5 DEF n, t

\* The check: every clause of it follows the adapters.
LEMMA CheckInv == ASSUME IInv, OnCheckNetwork PROVE IInv'
<1> DEFINE new == ToCreate
           dead == ToDestroy
           ends == level = "STOPPING" /\ Present \subseteq dead
<1>1. /\ check /\ UNCHANGED <<stopping, current, changes, search, seen, lost>>
      /\ iface' = [s \in Slot |-> IF s \in new THEN "RUNNING"
                                  ELSE IF s \in ToStop THEN "STOPPING"
                                  ELSE IF s \in dead THEN "none" ELSE iface[s]]
      /\ RestartAdverts(new) /\ RemoveInterfaces(dead)
      /\ heard' = {p \in heard : p[1] \notin dead} /\ asked' = {p \in asked : p[1] \notin dead}
      /\ check' = (dead # {} /\ ~ends) /\ late' = {}
      /\ level' = IF ends THEN "STOPPED" ELSE level
  BY DEF OnCheckNetwork, CheckAgain, net
<1>2. /\ TypeOK /\ current \in [Address -> 0 .. 2]
      /\ \A s \in Slot : s[1] \in Address /\ s[2] \in 1 .. 2
  BY SsdpAssumption DEF IInv, DiscoveryTyped, TypeOK, Slot
<1>3. /\ new \subseteq Slot /\ dead \subseteq Slot
      /\ \A s \in new : /\ level = "RUNNING" /\ iface[s] = "none" /\ s[2] <= current[s[1]]
                        /\ \A t \in Present : t[1] # s[1]
      /\ \A s \in Slot : s \in dead <=> iface[s] = "STOPPED"
      /\ \A s \in Slot : s \in ToStop <=> iface[s] = "RUNNING" /\ (level = "STOPPING" \/ current[s[1]] = 0)
      /\ \A s \in Slot : s \in Present <=> iface[s] # "none"
  BY DEF ToCreate, ToDestroy, ToStop, Present
<1>4. \A s \in Slot : s[2] <= current[s[1]] /\ level = "RUNNING" /\ (\A t \in Present : t[1] # s[1]) => s \in new
  BY DEF ToCreate
<1>5. \A s \in Slot : s \in Present' <=> s \in new \/ (s \in Present /\ s \notin dead)
  <2>1. \A s \in Slot : iface'[s] # "none" <=> s \in new \/ (iface[s] # "none" /\ s \notin dead)
    BY <1>1, <1>3
  <2> QED BY <1>3, <2>1 DEF Present
<1>6. \A s \in Slot : iface'[s] = "RUNNING" =>
          /\ level' # "STOPPING" /\ current[s[1]] > 0
          /\ s \in new \/ iface[s] = "RUNNING"
  <2> SUFFICES ASSUME NEW s \in Slot, iface'[s] = "RUNNING"
               PROVE  level' # "STOPPING" /\ current[s[1]] > 0 /\ (s \in new \/ iface[s] = "RUNNING")
    OBVIOUS
  <2>1. CASE s \in new
    BY <1>1, <1>2, <1>3, <2>1
  <2>2. CASE s \notin new
    <3>1. iface[s] = "RUNNING" /\ s \notin ToStop
      BY <1>1, <2>2
    <3> QED BY <1>1, <1>2, <1>3, <3>1
  <2> QED BY <2>1, <2>2
<1>7. /\ devices' \in [Search -> [Device -> Address \cup {Nowhere}]] /\ work' \subseteq Search
      /\ \A q \in Search, d \in Device :
            devices'[q][d] = IF devices[q][d] \in {s[1] : s \in dead} THEN Nowhere ELSE devices[q][d]
      /\ \A q \in Search : devices'[q] = devices[q] \/ q \in work'
      /\ work \subseteq work'
  <2>1. devices \in [Search -> [Device -> Address \cup {Nowhere}]]
    BY <1>2 DEF TypeOK
  <2>2. devices' \in [Search -> [Device -> Address \cup {Nowhere}]]
    BY <1>1, <2>1 DEF RemoveInterfaces
  <2>3. ASSUME NEW q \in Search, q \notin work' PROVE devices'[q] = devices[q]
    <3>1. \A d \in Device : devices[q][d] \notin {s[1] : s \in dead}
      BY <1>1, <2>3 DEF RemoveInterfaces
    <3>2. devices'[q] = [d \in Device |-> devices[q][d]]
      BY <1>1, <3>1 DEF RemoveInterfaces
    <3> QED BY <2>1, <3>2
  <2>4. work' \subseteq Search /\ work \subseteq work'
    BY <1>1, <1>2 DEF RemoveInterfaces, TypeOK
  <2>5. \A q \in Search, d \in Device :
            devices'[q][d] = IF devices[q][d] \in {s[1] : s \in dead} THEN Nowhere ELSE devices[q][d]
    BY <1>1 DEF RemoveInterfaces
  <2> QED BY <2>2, <2>3, <2>4, <2>5
<1>8. /\ advert' \in [Advert -> Timed]
      /\ \A a \in Advert : advert'[a] = IF new # {} /\ advert[a].level = "RUNNING"
                                        THEN Begun("RUNNING") ELSE advert[a]
  <2>1. advert' = [a \in Advert |-> IF new # {} /\ advert[a].level = "RUNNING"
                                    THEN Begun("RUNNING") ELSE advert[a]]
    BY <1>1 DEF RestartAdverts
  <2>2. Begun("RUNNING") \in Timed /\ \A a \in Advert : advert[a] \in Timed
    BY <1>2, BegunIs DEF TypeOK, Level
  <2> QED BY <2>1, <2>2
<1> HIDE DEF new, dead, ends
<1>9. DiscoveryTyped'
  <2>1. iface' \in [Slot -> {"none", "RUNNING", "STOPPING", "SILENT", "STOPPED"}]
    BY <1>1, <1>2 DEF TypeOK
  <2>2. heard' \subseteq Present' \X Advert /\ asked' \subseteq Present' \X Search
    <3>1. \A p \in heard : p[1] \in Present /\ p \in Present \X Advert
      BY DEF IInv, DiscoveryTyped
    <3>2. \A p \in asked : p[1] \in Present /\ p \in Present \X Search
      BY DEF IInv, DiscoveryTyped
    <3>3. \A s \in Present : s \notin dead => s \in Present'
      BY <1>3, <1>5 DEF Present
    <3> QED BY <1>1, <3>1, <3>2, <3>3
  <2>3. Present' \subseteq Slot
    BY DEF Present
  <2>4. TypeOK'
    BY <1>1, <1>2, <1>7, <1>8, <2>1, <2>2, <2>3 DEF TypeOK, Level
  <2>5. level' # "CONSTRUCTED"
    BY <1>1 DEF IInv, DiscoveryTyped
  <2>6. level' = "STOPPED" => ~check' /\ Present' = {}
    <3>1. level = "STOPPED" => ~check
      BY DEF IInv, DiscoveryTyped
    <3>2. level' = "STOPPED" => ends
      BY <1>1, <3>1
    <3>3. ends => new = {} /\ Present \subseteq dead
      BY <1>3 DEF ends
    <3> QED BY <1>1, <1>5, <2>3, <3>2, <3>3
  <2> QED BY <1>1, <2>2, <2>4, <2>5, <2>6 DEF DiscoveryTyped
<1>10. Followed'
  <2>1. ASSUME ~check', NEW s \in Slot
        PROVE  iface'[s] # "STOPPED" /\ (iface'[s] = "RUNNING" => current'[s[1]] > 0)
    <3>1. iface'[s] # "STOPPED"
      BY <1>1, <1>3
    <3> QED BY <1>1, <1>6, <3>1
  <2>2. ASSUME level' = "RUNNING", ~check', NEW x \in Address, current'[x] > 0
        PROVE  \E s \in Present' : s[1] = x
    <3>1. dead = {} /\ level = "RUNNING"
      BY <1>1, <2>2
    <3>2. CASE \E t \in Present : t[1] = x
      <4>1. PICK t \in Present : t[1] = x
        BY <3>2
      <4>2. t \in Present'
        BY <1>5, <3>1, <4>1 DEF Present
      <4> QED BY <4>1, <4>2
    <3>3. CASE \A t \in Present : t[1] # x
      <4>1. <<x, 1>> \in Slot /\ <<x, 1>>[1] = x /\ <<x, 1>>[2] = 1
        BY DEF Slot
      <4>2. 1 <= current[x]
        BY <1>1, <1>2, <2>2
      <4>3. <<x, 1>> \in new
        BY <1>4, <3>1, <3>3, <4>1, <4>2
      <4> QED BY <1>5, <4>1, <4>3
    <3> QED BY <3>2, <3>3
  <2>3. ASSUME level' = "STOPPING", ~check' PROVE Present' # {} /\ \A s \in Slot : iface'[s] # "RUNNING"
    <3>1. dead = {} /\ ~ends /\ level = "STOPPING"
      BY <1>1, <2>3
    <3>2. PICK s : s \in Present
      BY <3>1 DEF ends
    <3>3. s \in Present'
      BY <1>5, <3>1, <3>2 DEF Present
    <3> QED BY <1>6, <2>3, <3>3
  <2> QED BY <2>1, <2>2, <2>3 DEF Followed
<1>11. Known'
  <2>1. ASSUME NEW q \in Search, NEW d \in Device, devices'[q][d] # Nowhere
        PROVE  \E s \in Present' : s[1] = devices'[q][d]
    <3>1. devices'[q][d] = devices[q][d] /\ devices[q][d] \notin {s[1] : s \in dead}
      BY <1>7, <2>1
    <3>2. PICK s \in Present : s[1] = devices[q][d]
      BY <2>1, <3>1 DEF IInv, Known, DevicesReachable
    <3>3. s \notin dead
      BY <3>1, <3>2
    <3>4. s \in Present'
      BY <1>5, <3>2, <3>3 DEF Present
    <3> QED BY <3>1, <3>2, <3>4
  <2>2. ASSUME NEW q \in Search, search'[q].level = "RUNNING" PROVE devices'[q] = seen'[q] \/ q \in work'
    BY <1>1, <1>7, <2>2 DEF IInv, Known, DevicesReachable
  <2>3. ASSUME NEW q \in Search, search'[q].level = "CONSTRUCTED"
        PROVE  devices'[q] = seen'[q] /\ \A d \in Device : devices'[q][d] = Nowhere
    <3>1. devices[q] = seen[q] /\ \A d \in Device : devices[q][d] = Nowhere
      BY <1>1, <2>3 DEF IInv, Known
    <3>2. \A d \in Device : devices'[q][d] = Nowhere
      BY <1>7, <3>1
    <3>3. devices'[q] = devices[q]
      <4>1. devices'[q] \in [Device -> Address \cup {Nowhere}] /\ devices[q] \in [Device -> Address \cup {Nowhere}]
        BY <1>2, <1>7 DEF TypeOK
      <4> QED BY <3>1, <3>2, <4>1
    <3> QED BY <1>1, <3>1, <3>2, <3>3
  <2> QED BY <2>1, <2>2, <2>3 DEF Known, DevicesReachable
<1>12. Accounted'
  <2>1. ASSUME NEW s \in Slot, NEW a \in Advert, Unaware(s, a)'
        PROVE  advert'[a].count + Missable(s, a)' <= lost' + changes'
    <3>1. iface'[s] = "RUNNING" /\ current[s[1]] > 0 /\ (s \in new \/ iface[s] = "RUNNING")
      BY <1>6, <2>1 DEF Unaware
    <3>2. Missable(s, a)' = 0
      BY <1>1, <3>1 DEF Missable
    <3>3. advert[a] \in Timed /\ changes \in Nat /\ lost \in Nat /\ advert'[a].count \in Nat
      <4>1. advert[a] \in Timed /\ advert'[a] \in Timed
        BY <1>2, <1>8 DEF TypeOK
      <4>2. changes \in Nat /\ lost \in Nat
        BY <1>2, SsdpAssumption DEF TypeOK
      <4>3. advert'[a].count \in 0 .. 4
        BY <4>1, Fields
      <4> QED BY <4>1, <4>2, <4>3
    <3>4. CASE new # {} /\ advert[a].level = "RUNNING"
      <4>1. advert'[a].count = 0
        BY <1>8, <3>4 DEF Begun
      <4> QED BY <1>1, <3>2, <3>3, <4>1
    <3>5. CASE ~(new # {} /\ advert[a].level = "RUNNING")
      <4>1. advert'[a] = advert[a]
        BY <1>8, <3>5
      <4>2. s \notin new
        <5>1. s \in new => <<s, a>> \notin heard
          BY <1>3 DEF IInv, DiscoveryTyped, Present
        <5> QED BY <1>1, <2>1, <3>5, <4>1, <5>1 DEF Unaware
      <4>3. <<s, a>> \in heard' <=> <<s, a>> \in heard
        BY <1>1, <1>3, <3>1, <4>2
      <4>4. Unaware(s, a)
        BY <2>1, <3>1, <4>1, <4>2, <4>3 DEF Unaware
      <4>5. advert[a].count + Missable(s, a) <= lost + changes /\ Missable(s, a) \in 0 .. 1
        BY <4>4 DEF IInv, Accounted, Missable
      <4> QED BY <1>1, <3>2, <3>3, <4>1, <4>5
    <3> QED BY <3>4, <3>5
  <2>2. ASSUME NEW s \in Slot, iface'[s] = "RUNNING", current'[s[1]] = 0 PROVE changes' >= 1
    BY <1>1, <1>6, <2>2
  <2>3. ASSUME NEW a \in Advert
        PROVE  /\ advert'[a].timer = "single" => advert'[a].level = "RUNNING" /\ advert'[a].count = 4
               /\ advert'[a].level = "STOPPED" => advert'[a].count = 4
               /\ advert'[a].level \in {"CONSTRUCTED", "STOPPED"} => advert'[a].timer = "off"
    <3>1. CASE advert'[a] = advert[a]
      BY <3>1 DEF IInv, Accounted
    <3>2. CASE advert'[a] = Begun("RUNNING")
      BY <3>2 DEF Begun
    <3> QED BY <1>8, <3>1, <3>2
  <2> QED BY <2>1, <2>2, <2>3 DEF Accounted
<1> QED BY <1>9, <1>10, <1>11, <1>12 DEF IInv

\* An interface stops, and has a check scheduled when it has.
LEMMA InterfaceInv == ASSUME IInv, NEW s \in Slot, Interface(s) PROVE IInv'
<1> USE DEF Interface, SocketStops, InterfaceStops, net, checking, found
<1>1. /\ iface[s] \in {"STOPPING", "SILENT"} /\ check' \in BOOLEAN /\ (check => check')
      /\ iface' = [iface EXCEPT ![s] = IF iface[s] = "STOPPING" THEN "SILENT" ELSE "STOPPED"]
      /\ iface[s] = "SILENT" => check'
      /\ UNCHANGED <<level, stopping, current, changes, late, advert, search, devices, seen, work, heard, asked, lost>>
  BY DEF IInv, DiscoveryTyped, TypeOK
<1>2. iface \in [Slot -> {"none", "RUNNING", "STOPPING", "SILENT", "STOPPED"}]
  BY DEF IInv, DiscoveryTyped, TypeOK
<1>3. /\ \A t \in Slot : t # s => iface'[t] = iface[t]
      /\ iface'[s] = IF iface[s] = "STOPPING" THEN "SILENT" ELSE "STOPPED"
      /\ iface' \in [Slot -> {"none", "RUNNING", "STOPPING", "SILENT", "STOPPED"}]
  BY <1>1, <1>2
<1> HIDE DEF Interface
<1>4. Present' = Present /\ s \in Present
  BY <1>1, <1>3 DEF Present
<1>5. DiscoveryTyped'
  BY <1>1, <1>3, <1>4 DEF IInv, DiscoveryTyped, TypeOK
<1>6. Followed'
  <2>1. ASSUME ~check', NEW t \in Slot
        PROVE  iface'[t] # "STOPPED" /\ (iface'[t] = "RUNNING" => current'[t[1]] > 0)
    <3>1. iface[t] # "STOPPED" /\ (iface[t] = "RUNNING" => current[t[1]] > 0)
      BY <1>1, <2>1 DEF IInv, Followed
    <3> QED BY <1>1, <1>3, <2>1, <3>1
  <2> QED BY <1>1, <1>3, <1>4, <2>1 DEF IInv, Followed
<1>7. Known'
  BY <1>1, <1>4 DEF IInv, Known, DevicesReachable
<1>8. Accounted'
  <2>1. \A t \in Slot : iface'[t] = "RUNNING" => iface[t] = "RUNNING"
    BY <1>3
  <2>2. \A t \in Slot, a \in Advert :
            (Unaware(t, a)' => Unaware(t, a)) /\ Missable(t, a)' = Missable(t, a)
    BY <1>1, <2>1 DEF Unaware, Missable
  <2> QED BY <1>1, <2>1, <2>2 DEF IInv, Accounted
<1> QED BY <1>5, <1>6, <1>7, <1>8 DEF IInv

\* The adapters change: what has not been heard by then may be missed once more.
LEMMA ChangeInv == ASSUME IInv, NetworkChanges PROVE IInv'
<1> USE DEF NetworkChanges, found
<1>1. /\ changes \in Nat /\ changes' = changes + 1 /\ changes' <= MaxChanges /\ MaxChanges \in Nat
      /\ lost \in Nat /\ current' \in Currents /\ check' \in BOOLEAN
      /\ level = "RUNNING" => check'
  <2>1. changes \in 0 .. MaxChanges /\ lost \in 0 .. MaxLost /\ check \in BOOLEAN
    BY DEF IInv, DiscoveryTyped, TypeOK
  <2>2. MaxChanges \in Nat /\ MaxLost \in Nat
    BY SsdpAssumption
  <2>3. check' \in BOOLEAN /\ (level = "RUNNING" => check')
    BY <2>1
  <2>4. changes' = changes + 1 /\ changes < MaxChanges /\ current' \in Currents
    OBVIOUS
  <2> QED BY <2>1, <2>2, <2>3, <2>4
<1>2. DiscoveryTyped'
  BY <1>1 DEF IInv, DiscoveryTyped, TypeOK, Present
<1>3. Followed'
  <2>1. ~check' => level \in {"CONSTRUCTED", "STOPPING", "STOPPED"} /\ ~check
    BY DEF IInv, DiscoveryTyped, TypeOK, Level
  <2>2. ~check' => \A s \in Slot : iface[s] # "RUNNING" /\ iface[s] # "STOPPED"
    BY <2>1 DEF IInv, DiscoveryTyped, Followed, Present
  <2> QED BY <1>1, <2>1, <2>2 DEF IInv, Followed, Present
<1>4. Known'
  BY Undisturbed
<1>5. Accounted'
  <2>1. ASSUME NEW s \in Slot, NEW a \in Advert, Unaware(s, a)'
        PROVE  advert'[a].count + Missable(s, a)' <= lost' + changes'
    <3>1. advert[a] \in Timed
      BY DEF IInv, DiscoveryTyped, TypeOK
    <3>2. advert[a].count \in 0 .. 4
      BY <3>1, Fields
    <3>3. Unaware(s, a)
      BY <2>1 DEF Unaware
    <3>4. Missable(s, a) \in 0 .. 1 /\ Missable(s, a)' \in 0 .. 1
      BY DEF Missable
    <3>5. advert[a].count + Missable(s, a) <= lost + changes
      BY <3>3 DEF IInv, Accounted
    <3> QED BY <1>1, <3>2, <3>4, <3>5
  <2>2. changes' >= 1
    BY <1>1
  <2> QED BY <2>1, <2>2 DEF IInv, Accounted
<1> QED BY <1>2, <1>3, <1>4, <1>5 DEF IInv

\* The service starts and stops with a check.
LEMMA LevelInv == ASSUME IInv, HandleStarting \/ RequestStop \/ HandleStopping PROVE IInv'
<1> USE DEF HandleStarting, RequestStop, HandleStopping, net, checking, found
<1>1. /\ UNCHANGED <<current, changes, late, iface, advert, search, devices, seen, work, heard, asked, lost>>
      /\ \/ UNCHANGED <<level, check>>
         \/ check' = TRUE /\ level' \in {"RUNNING", "STOPPING"}
      /\ stopping' \in BOOLEAN
  BY DEF IInv, DiscoveryTyped, TypeOK
<1>2. DiscoveryTyped'
  <2>1. TypeOK'
    BY <1>1 DEF IInv, DiscoveryTyped, TypeOK, Level
  <2>2. Present' = Present
    BY <1>1 DEF Present
  <2>3. level' \notin {"CONSTRUCTED", "STOPPED"} \/ UNCHANGED <<level, check>>
    BY <1>1
  <2>4. check' \/ ~check
    BY <1>1
  <2> QED BY <1>1, <2>1, <2>2, <2>3, <2>4 DEF IInv, DiscoveryTyped
<1>3. Followed'
  BY <1>1 DEF IInv, Followed, Present
<1> QED BY <1>1, <1>2, <1>3, Undisturbed DEF IInv

\* A search, which the adverts do not hear of.
LEMMA SearchInv ==
    ASSUME IInv, NEW q \in Search, Seek(q)
    PROVE  IInv'
<1> USE DEF net, checking, found
<1>1. UNCHANGED <<level, stopping, current, changes, check, late, iface, advert, heard>>
  BY DEF Seek, SearchStarts, SearchStopping, SearchTimerExpired, HandleDevicesChanged
<1>2. Followed'
  BY <1>1, Undisturbed
<1>3. /\ TypeOK /\ search \in [Search -> Timed] /\ search[q] \in Timed
      /\ devices \in [Search -> [Device -> Address \cup {Nowhere}]]
      /\ seen \in [Search -> [Device -> Address \cup {Nowhere}]]
  BY DEF IInv, DiscoveryTyped, TypeOK
<1>4. ASSUME lost' = lost, search' \in [Search -> Timed],
             devices' \in [Search -> [Device -> Address \cup {Nowhere}]],
             seen' \in [Search -> [Device -> Address \cup {Nowhere}]],
             work' \subseteq Search, asked' = asked, Known'
      PROVE  IInv'
  <2>1. DiscoveryTyped'
    BY <1>1, <1>3, <1>4 DEF IInv, DiscoveryTyped, TypeOK, Present
  <2>2. Accounted'
    BY <1>1, <1>4, Undisturbed
  <2> QED BY <1>2, <1>4, <2>1, <2>2 DEF IInv
<1>5. CASE SearchStarts(q)
  <2> DEFINE r == Begun("RUNNING")
  <2>1. r \in Timed /\ r.level = "RUNNING"
    BY BegunIs DEF Level
  <2>2. /\ search' = [search EXCEPT ![q] = r] /\ search[q].level = "CONSTRUCTED"
        /\ UNCHANGED <<devices, seen, work, asked, lost>>
    BY <1>5 DEF SearchStarts
  <2>3. search' \in [Search -> Timed] /\ search'[q] = r /\ \A p \in Search : p # q => search'[p] = search[p]
    BY <1>3, <2>1, <2>2
  <2>4. Known'
    BY <1>1, <2>2, <2>3 DEF IInv, Known, DevicesReachable, Present
  <2> QED BY <1>3, <1>4, <2>2, <2>3, <2>4 DEF TypeOK
<1>6. CASE SearchStopping(q)
  <2> DEFINE r == [search[q] EXCEPT !.level = "STOPPED", !.timer = "off"]
  <2>1. r \in Timed /\ r.level = "STOPPED"
    BY <1>3 DEF Timed, Level
  <2>2. /\ search' = [search EXCEPT ![q] = r]
        /\ devices' = [devices EXCEPT ![q] = [d \in Device |-> Nowhere]] /\ work' = work \ {q}
        /\ UNCHANGED <<seen, asked, lost>>
    BY <1>6 DEF SearchStopping
  <2>3. search' \in [Search -> Timed] /\ search'[q] = r /\ \A p \in Search : p # q => search'[p] = search[p]
    BY <1>3, <2>1, <2>2
  <2>4. /\ devices' \in [Search -> [Device -> Address \cup {Nowhere}]]
        /\ \A p \in Search : p # q => devices'[p] = devices[p]
        /\ \A d \in Device : devices'[q][d] = Nowhere
    BY <1>3, <2>2
  <2>5. Known'
    BY <1>1, <2>1, <2>2, <2>3, <2>4 DEF IInv, Known, DevicesReachable, Present
  <2> QED BY <1>3, <1>4, <2>2, <2>3, <2>4, <2>5 DEF TypeOK
<1>7. CASE HandleDevicesChanged(q)
  <2>1. /\ work' = work \ {q} /\ seen' = [seen EXCEPT ![q] = devices[q]]
        /\ UNCHANGED <<search, devices, asked, lost>>
    BY <1>7 DEF HandleDevicesChanged
  <2>2. /\ seen' \in [Search -> [Device -> Address \cup {Nowhere}]] /\ seen'[q] = devices[q]
        /\ \A p \in Search : p # q => seen'[p] = seen[p]
    BY <1>3, <2>1
  <2>3. Known'
    BY <1>1, <2>1, <2>2 DEF IInv, Known, DevicesReachable, Present
  <2> QED BY <1>3, <1>4, <2>1, <2>2, <2>3 DEF TypeOK
<1>8. CASE SearchTimerExpired(q)
  <2>1. PICK reached \in SUBSET Present : SentTo(Present, reached) /\ asked' = asked \cup Pair(reached, q)
    BY <1>8 DEF SearchTimerExpired
  <2>2. search' = [search EXCEPT ![q] = Counted(@)] /\ UNCHANGED <<devices, seen, work>>
    BY <1>8 DEF SearchTimerExpired
  <2>3. Counted(search[q]) \in Timed /\ Counted(search[q]).level = search[q].level
    BY <1>3, CountedIs
  <2>4. search' \in [Search -> Timed] /\ \A p \in Search : search'[p].level = search[p].level
    BY <1>3, <2>2, <2>3
  <2>5. lost' \in 0 .. MaxLost /\ lost' >= lost /\ lost \in Nat
    <3>1. Present \in SUBSET Slot
      BY DEF Present
    <3> QED BY <1>3, <2>1, <3>1, Sending
  <2>6. Present' = Present /\ asked' \subseteq Present \X Search
    BY <1>1, <2>1 DEF Present, Pair, IInv, DiscoveryTyped
  <2>7. DiscoveryTyped'
    BY <1>1, <1>3, <2>2, <2>4, <2>5, <2>6 DEF IInv, DiscoveryTyped, TypeOK, Present
  <2>8. Known'
    BY <1>1, <2>2, <2>4 DEF IInv, Known, DevicesReachable, Present
  <2>9. Accounted'
    <3>1. \A s \in Slot, a \in Advert :
              /\ Unaware(s, a)' <=> Unaware(s, a)
              /\ Missable(s, a)' = Missable(s, a) /\ Missable(s, a) \in 0 .. 1
      BY <1>1 DEF Unaware, Missable
    <3>2. \A a \in Advert : advert[a].count \in 0 .. 4
      <4>1. \A a \in Advert : advert[a] \in Timed
        BY <1>3 DEF TypeOK
      <4> QED BY <4>1, Fields
    <3>3. changes \in Nat
      BY <1>3, SsdpAssumption DEF TypeOK
    <3> QED BY <1>1, <2>5, <3>1, <3>2, <3>3 DEF IInv, Accounted
  <2> QED BY <1>2, <2>7, <2>8, <2>9 DEF IInv
<1> QED BY <1>5, <1>6, <1>7, <1>8 DEF Seek

\* A device is heard through an interface that is there.
LEMMA DeviceInv == ASSUME IInv, NEW s \in Slot, NEW d \in Device, DeviceReceived(s, d) PROVE IInv'
<1>1. /\ UNCHANGED <<level, stopping, current, changes, check, late, iface, advert, search, seen, heard, asked, lost>>
      /\ s \in Present /\ s[1] \in Address
  BY DEF DeviceReceived, Hears, Present, net, checking, Slot
<1>2. PICK x \in {s[1], Nowhere} : Noticed(d, x)
  BY DEF DeviceReceived
<1> DEFINE changed == {q \in For(d) : devices[q][d] # x}
<1>3. /\ devices' = [q \in Search |-> IF q \in changed THEN [devices[q] EXCEPT ![d] = x] ELSE devices[q]]
      /\ work' = work \cup changed /\ \A q \in changed : search[q].level = "RUNNING"
      /\ changed \subseteq Search
  BY <1>2 DEF Noticed, For
<1> HIDE DEF changed
<1>4. devices \in [Search -> [Device -> Address \cup {Nowhere}]] /\ work \subseteq Search
  BY DEF IInv, DiscoveryTyped, TypeOK
<1>5. devices' \in [Search -> [Device -> Address \cup {Nowhere}]] /\ work' \subseteq Search
  BY <1>1, <1>3, <1>4
<1>6. DiscoveryTyped'
  BY <1>1, <1>5 DEF IInv, DiscoveryTyped, TypeOK, Present
<1>7. Known'
  <2>1. ASSUME NEW q \in Search, NEW e \in Device, devices'[q][e] # Nowhere
        PROVE  \E t \in Present' : t[1] = devices'[q][e]
    <3>1. devices'[q][e] = devices[q][e] \/ devices'[q][e] = s[1]
      BY <1>3, <1>4, <2>1
    <3>2. Present' = Present
      BY <1>1 DEF Present
    <3> QED BY <1>1, <2>1, <3>1, <3>2 DEF IInv, Known, DevicesReachable
  <2>2. \A q \in Search : q \in changed \/ devices'[q] = devices[q]
    BY <1>3
  <2> QED BY <1>1, <1>3, <2>1, <2>2 DEF IInv, Known, DevicesReachable
<1> QED BY <1>1, <1>6, <1>7, Undisturbed DEF IInv

\* An advert sends: what it misses is accounted for.
LEMMA ExpiredInv == ASSUME IInv, NEW b \in Advert, AdvertTimerExpired(b) PROVE IInv'
<1> USE DEF net, checking, found
<1> DEFINE out == {s \in Present : s[1] \in Located}
           r == Counted(advert[b])
           stops == r.count > 3 /\ r.level = "STOPPING"
<1>1. PICK reached \in SUBSET Present :
          /\ SentTo(out, reached)
          /\ heard' = IF advert[b].level = "RUNNING" THEN heard \cup Pair(reached, b)
                      ELSE heard \ Pair(reached, b)
  BY DEF AdvertTimerExpired
<1>2. /\ Due(b) /\ UNCHANGED <<level, stopping, current, changes, check, iface, search, devices, seen, work, asked>>
      /\ advert' = [advert EXCEPT ![b] = IF stops THEN [level |-> "STOPPED", count |-> r.count, timer |-> "off"] ELSE r]
  BY DEF AdvertTimerExpired
<1>3. /\ advert \in [Advert -> Timed] /\ advert[b] \in Timed /\ r \in Timed /\ TypeOK
      /\ advert[b].count \in 0 .. 4 /\ r.level = advert[b].level
      /\ r.count = IF advert[b].count < 4 THEN advert[b].count + 1 ELSE 4
      /\ r.timer = IF r.count > 3 THEN "single" ELSE advert[b].timer
  <2>1. advert \in [Advert -> Timed] /\ TypeOK
    BY DEF IInv, DiscoveryTyped, TypeOK
  <2>2. advert[b] \in Timed
    BY <2>1
  <2> QED BY <2>1, <2>2, CountedIs, Fields
<1>4. r.count \in 0 .. 4 /\ r.level \in Level /\ r.timer \in {"off", "periodic", "single"}
  BY <1>3 DEF Timed
<1> HIDE DEF r
<1>5. /\ advert' \in [Advert -> Timed] /\ \A a \in Advert : a # b => advert'[a] = advert[a]
      /\ advert'[b].count = r.count
      /\ advert'[b].level = IF stops THEN "STOPPED" ELSE r.level
      /\ advert'[b].timer = IF stops THEN "off" ELSE r.timer
  <2>1. CASE stops
    <3>1. advert' = [advert EXCEPT ![b] = [level |-> "STOPPED", count |-> r.count, timer |-> "off"]]
      BY <1>2, <2>1
    <3>2. [level |-> "STOPPED", count |-> r.count, timer |-> "off"] \in Timed
      BY <1>4, Records DEF Level
    <3> QED BY <1>3, <2>1, <3>1, <3>2
  <2>2. CASE ~stops
    <3>1. advert' = [advert EXCEPT ![b] = r]
      BY <1>2, <2>2
    <3> QED BY <1>3, <2>2, <3>1
  <2> QED BY <2>1, <2>2
<1>6. /\ reached \subseteq out /\ lost \in Nat /\ lost' \in 0 .. MaxLost /\ lost' >= lost
      /\ \A s \in out \ reached : current[s[1]] > 0 => lost' >= lost + 1
  <2>1. out \in SUBSET Slot
    BY DEF Present
  <2> HIDE DEF out
  <2> QED BY <1>1, <1>3, <2>1, Sending
<1>7. late' \subseteq Advert /\ (~check => late' = {}) /\ (check => b \notin late /\ late' = late \cup {b})
  BY <1>2, <1>3 DEF Due, TypeOK
<1>8. DiscoveryTyped'
  <2>1. Present' = Present /\ Present \subseteq Slot
    BY <1>2 DEF Present
  <2>2. heard' \subseteq Present \X Advert
    BY <1>1 DEF Pair, IInv, DiscoveryTyped
  <2>3. TypeOK'
    <3>1. heard' \subseteq Slot \X Advert
      BY <2>1, <2>2
    <3> QED BY <1>2, <1>3, <1>5, <1>6, <1>7, <3>1 DEF TypeOK
  <2> QED BY <1>2, <1>7, <2>1, <2>2, <2>3 DEF IInv, DiscoveryTyped
<1>9. Followed' /\ Known'
  BY <1>2, Undisturbed
<1>10. Accounted'
  <2>0. changes \in Nat
    BY <1>3, SsdpAssumption DEF TypeOK
  <2>1. ASSUME NEW s \in Slot, NEW a \in Advert, Unaware(s, a)'
        PROVE  advert'[a].count + Missable(s, a)' <= lost' + changes'
    <3>1. iface[s] = "RUNNING" /\ s[1] \in Located /\ s \in Present
      BY <1>2, <2>1 DEF Unaware, Present
    <3>2. Missable(s, a) \in 0 .. 1 /\ Missable(s, a)' \in 0 .. 1 /\ Missable(s, a)' <= Missable(s, a)
      <4>1. a \in late => a \in late'
        BY <1>7 DEF IInv, DiscoveryTyped
      <4> QED BY <1>2, <4>1 DEF Missable
    <3>3. CASE a # b
      <4>1. advert'[a] = advert[a] /\ (<<s, a>> \in heard' <=> <<s, a>> \in heard)
        BY <1>1, <1>5, <3>3 DEF Pair
      <4>2. Unaware(s, a) /\ advert[a].count \in 0 .. 4
        BY <1>2, <1>3, <2>1, <4>1, Fields DEF Unaware
      <4>3. advert[a].count + Missable(s, a) <= lost + changes
        BY <4>2 DEF IInv, Accounted
      <4>4. changes' = changes /\ lost \in Nat /\ lost' \in Nat /\ lost' >= lost
        BY <1>2, <1>6
      <4>5. advert'[a].count = advert[a].count
        BY <4>1
      <4> QED BY <2>0, <3>2, <4>2, <4>3, <4>4, <4>5
    <3>4. CASE a = b
      <4>1. Unaware(s, b) /\ s \notin reached
        <5>1. advert[b].level \in Level
          BY <1>3, Fields
        <5>2. <<s, b>> \in Pair(reached, b) <=> s \in reached
          BY DEF Pair
        <5>3. advert'[b].level = "RUNNING" <=> advert[b].level = "RUNNING"
          BY <1>3, <1>5
        <5>4. advert'[b].level \in {"STOPPING", "STOPPED"} => advert[b].level \in {"STOPPING", "STOPPED"}
          BY <1>3, <1>5
        <5> QED BY <1>1, <1>2, <2>1, <3>4, <5>1, <5>2, <5>3, <5>4 DEF Unaware
      <4>2. advert[b].count + Missable(s, b) <= lost + changes
        BY <4>1 DEF IInv, Accounted
      <4>3. current[s[1]] \in 0 .. 2 /\ (~check => current[s[1]] > 0)
        BY <3>1, GoneWaits
      <4>4. CASE current[s[1]] > 0
        <5>1. lost' >= lost + 1 /\ Missable(s, b)' = 0
          BY <1>2, <1>6, <3>1, <4>1, <4>3, <4>4 DEF Missable
        <5> QED BY <1>2, <1>3, <1>5, <1>6, <2>0, <3>2, <3>4, <4>2, <5>1
      <4>5. CASE current[s[1]] = 0
        <5>1. Missable(s, b) = 1 /\ Missable(s, b)' = 0
          BY <1>2, <1>7, <4>3, <4>5 DEF Missable
        <5> QED BY <1>2, <1>3, <1>5, <1>6, <2>0, <3>4, <4>2, <5>1
      <4> QED BY <4>3, <4>4, <4>5
    <3> QED BY <3>3, <3>4
  <2>2. ASSUME NEW a \in Advert
        PROVE  /\ advert'[a].timer = "single" => advert'[a].level = "RUNNING" /\ advert'[a].count = 4
               /\ advert'[a].level = "STOPPED" => advert'[a].count = 4
               /\ advert'[a].level \in {"CONSTRUCTED", "STOPPED"} => advert'[a].timer = "off"
    <3>1. /\ advert[a].timer = "single" => advert[a].level = "RUNNING" /\ advert[a].count = 4
          /\ advert[a].level = "STOPPED" => advert[a].count = 4
          /\ advert[a].level \in {"CONSTRUCTED", "STOPPED"} => advert[a].timer = "off"
      BY DEF IInv, Accounted
    <3>2. CASE a # b
      BY <1>5, <3>1, <3>2
    <3>3. CASE a = b
      <4>1. advert[b].level \in {"RUNNING", "STOPPING"}
        <5>1. advert[b].timer # "off" /\ advert[b].level \in Level
          BY <1>3, Fields DEF AdvertTimerExpired
        <5> QED BY <3>1, <3>3, <5>1 DEF Level
      <4> QED BY <1>3, <1>4, <1>5, <3>1, <3>3, <4>1
    <3> QED BY <3>2, <3>3
  <2> QED BY <1>2, <2>1, <2>2 DEF IInv, Accounted
<1> QED BY <1>8, <1>9, <1>10 DEF IInv

\* An advert starts or is stopped, and an answer reaches who asks.
LEMMA AdvertInv ==
    ASSUME IInv, NEW b \in Advert,
           AdvertStarts(b) \/ AdvertStopping(b) \/ \E s \in Slot : DiscoverReceived(s, b)
    PROVE  IInv'
<1> USE DEF net, checking, found
<1>1. UNCHANGED <<level, current, changes, check, late, iface, search, devices, seen, work, asked, lost, stopping>>
  BY DEF AdvertStarts, AdvertStopping, DiscoverReceived
<1>2. /\ Followed' /\ Known' /\ Present' = Present /\ Present \subseteq Slot
      /\ advert \in [Advert -> Timed] /\ TypeOK
  BY <1>1, Undisturbed DEF Present, IInv, DiscoveryTyped, TypeOK
<1>3. ASSUME advert' \in [Advert -> Timed], heard' \subseteq Present \X Advert PROVE DiscoveryTyped'
  <2>1. heard' \subseteq Slot \X Advert
    BY <1>2, <1>3
  <2> QED BY <1>1, <1>2, <1>3, <2>1 DEF IInv, DiscoveryTyped, TypeOK
<1>4. CASE \E s \in Slot : DiscoverReceived(s, b)
  <2>1. PICK s \in Slot : DiscoverReceived(s, b)
    BY <1>4
  <2>2. /\ advert' = advert /\ heard' = heard \cup {<<s, b>>} /\ s \in Present
        /\ advert[b].level = "RUNNING"
    BY <2>1 DEF DiscoverReceived, Hears, Present
  <2>3. \A t \in Slot, a \in Advert : (Unaware(t, a)' => Unaware(t, a)) /\ Missable(t, a)' = Missable(t, a)
    BY <1>1, <2>2 DEF Unaware, Missable
  <2>4. Accounted'
    BY <1>1, <2>2, <2>3 DEF IInv, Accounted
  <2>5. DiscoveryTyped'
    BY <1>2, <1>3, <2>2 DEF IInv, DiscoveryTyped
  <2> QED BY <1>2, <2>4, <2>5 DEF IInv
<1>5. CASE AdvertStarts(b) \/ AdvertStopping(b)
  <2>1. PICK l \in {"RUNNING", "STOPPING"} :
            advert' = [advert EXCEPT ![b] = Begun(l)]
    BY <1>5 DEF AdvertStarts, AdvertStopping
  <2>2. heard' = heard
    BY <1>5 DEF AdvertStarts, AdvertStopping
  <2>3. /\ Begun(l) \in Timed /\ Begun(l).level = l /\ Begun(l).count = 0
        /\ Begun(l).timer = "periodic"
    BY BegunIs DEF Level
  <2>4. /\ advert' \in [Advert -> Timed] /\ \A a \in Advert : a # b => advert'[a] = advert[a]
        /\ advert'[b] = Begun(l)
    BY <1>2, <2>1, <2>3
  <2>5. DiscoveryTyped'
    BY <1>3, <2>2, <2>4 DEF IInv, DiscoveryTyped
  <2>6. ASSUME NEW s \in Slot, NEW a \in Advert, Unaware(s, a)'
        PROVE  advert'[a].count + Missable(s, a)' <= lost' + changes'
    <3>1. Missable(s, a)' = Missable(s, a) /\ iface[s] = "RUNNING"
      BY <1>1, <2>6 DEF Missable, Unaware
    <3>2. CASE a # b
      <4>1. Unaware(s, a)
        BY <1>1, <2>2, <2>4, <2>6, <3>2 DEF Unaware
      <4> QED BY <1>1, <2>4, <3>1, <3>2, <4>1 DEF IInv, Accounted
    <3>3. CASE a = b
      <4>1. changes \in Nat /\ lost \in Nat
        BY <1>2, SsdpAssumption DEF TypeOK
      <4>2. Missable(s, b) \in 0 .. 1 /\ (Missable(s, b) = 1 => changes >= 1)
        BY <3>1 DEF Missable, IInv, Accounted
      <4>3. advert'[b].count = 0
        BY <2>3, <2>4
      <4> QED BY <1>1, <3>1, <3>3, <4>1, <4>2, <4>3
    <3> QED BY <3>2, <3>3
  <2>7. \A s \in Slot : iface'[s] = "RUNNING" /\ current'[s[1]] = 0 => changes' >= 1
    BY <1>1 DEF IInv, Accounted
  <2>8. \A a \in Advert :
            /\ advert'[a].timer = "single" => advert'[a].level = "RUNNING" /\ advert'[a].count = 4
            /\ advert'[a].level = "STOPPED" => advert'[a].count = 4
            /\ advert'[a].level \in {"CONSTRUCTED", "STOPPED"} => advert'[a].timer = "off"
    BY <2>3, <2>4 DEF IInv, Accounted
  <2> QED BY <1>2, <2>5, <2>6, <2>7, <2>8 DEF IInv, Accounted
<1> QED BY <1>4, <1>5

\* Every step keeps it.
LEMMA NextInv == IInv /\ [Next]_vars => IInv'
<1> SUFFICES ASSUME IInv, [Next]_vars PROVE IInv'
  OBVIOUS
<1>1. ASSUME UNCHANGED vars PROVE IInv'
  <2>1. DiscoveryTyped'
    BY <1>1 DEF vars, net, checking, found, IInv, DiscoveryTyped, TypeOK, Present
  <2> QED BY <1>1, <2>1, Undisturbed DEF vars, net, checking, found, IInv
<1>2. CASE Next
  BY <1>1, <1>2, CheckInv, InterfaceInv, ChangeInv, LevelInv, SearchInv, DeviceInv, ExpiredInv, AdvertInv
  DEF Next, Stopped, Advertise
<1> QED BY <1>1, <1>2

\* Interfaces, searches and the scheduled check agree: no search knows a device through an
\* interface that is gone, no wake up of the check is lost, and a service that has stopped
\* has neither interface nor check (SsdpDiscoveryService.cpp, SsdpSearch.cpp).
THEOREM StaysConsistent == Spec => []Consistent
BY InitInv, NextInv, IInvImplies, PTL DEF Spec

\* For any adapters, adverts and losses: three messages that miss a neighbour, through a
\* datagram lost or an address that has gone, leave it with the fourth (SsdpAdvert.cpp).
THEOREM NeighboursComeToKnow == Spec => []NeighboursKnow
BY InitInv, NextInv, IInvImplies, PTL DEF Spec

\* The socket's counter, asio and the owner agree within everything that is checked.
THEOREM BoundSocketStaysConsistent == MCSpec => []SocketConsistent
<1>1. MCInit => Socket!Init
  BY DEF MCInit
<1>2. [MCNext]_allVars => [Socket!Next]_(Socket!vars)
  BY DEF MCNext, MCSsdp, Udp, Ssdp, With, allVars, udp, Socket!vars
<1>3. Socket!Consistent => SocketConsistent
  BY DEF SocketConsistent
<1> QED BY <1>1, <1>2, <1>3, SocketStaysConsistent, PTL DEF MCSpec, Socket!Spec
=============================================================================
