----------------------------- MODULE SsdpDiscovery -----------------------------
(***************************************************************************)
(* The SSDP discovery service keeps a NetworkInterface, with a UdpSocket,  *)
(* for each address of each network adapter.  What is created and stopped  *)
(* as the adapters change, and destroyed when it has stopped, is decided   *)
(* by one check, which others only schedule.  SsdpAdverts announce a       *)
(* service through the interfaces there are, four times when something has *)
(* changed and again before the neighbours forget, and say goodbye four    *)
(* times.  SsdpSearches ask in the same rhythm and collect the devices     *)
(* that answer or announce themselves.                                     *)
(*                                                                         *)
(* Datagrams may be lost.  An announcement, goodbye or question is what it *)
(* does to the neighbours that hear it.                                    *)
(***************************************************************************)
EXTENDS Naturals, FiniteSets

CONSTANTS
    Address,    \* IPv4 addresses, loopback left out
    Currents,   \* how many adapters may have each address
    Advert, Search, Device,
    Located,    \* the addresses at which the info callback has a location
    Wanted,     \* the devices of each search's service type
    Nowhere,    \* no address
    MaxChanges, \* bound on the changes of the adapters
    MaxLost     \* bound on the datagrams that are lost

Slot == Address \X (1 .. 2)

ASSUME SsdpAssumption ==
    /\ IsFiniteSet(Address)
    /\ Currents \subseteq [Address -> 0 .. 2]
    /\ Located \subseteq Address /\ Nowhere \notin Address
    /\ Wanted \in [Search -> SUBSET Device]
    /\ MaxChanges \in Nat /\ MaxLost \in Nat

VARIABLES
    level,      \* the service's local run level
    stopping,   \* the application has been told to stop
    current,    \* the adapters' addresses, as the network change service knows them
    check,      \* m_check_network_work is scheduled
    iface,      \* m_interfaces: for an address and a number, its state or "none"
    advert,     \* of each advert its level, count and timer
    search,     \* of each search its level, count and timer
    devices,    \* m_devices of each search: the interface each was heard on last
    seen,       \* what its owner's handler saw in it last
    work,       \* the searches whose m_change_work is scheduled
    heard,      \* <<s, a>>: the neighbours of interface s believe advert a alive
    asked,      \* <<s, q>>: the neighbours of interface s have heard search q
    late,       \* the adverts whose timer has fired since the check was scheduled
    changes,    \* changes of the adapters so far
    lost        \* datagrams that were lost

net == <<current, changes>>
checking == <<check, late>>
found == <<devices, seen, work>>
vars == <<level, stopping, net, checking, iface, advert, search, found, heard, asked, lost>>

Idle == [level |-> "CONSTRUCTED", count |-> 0, timer |-> "off"]

Init ==
    /\ level = "CONSTRUCTED" /\ stopping = FALSE
    /\ current \in Currents
    /\ check = FALSE /\ late = {}
    /\ iface = [s \in Slot |-> "none"]
    /\ advert = [a \in Advert |-> Idle] /\ search = [q \in Search |-> Idle]
    /\ devices = [q \in Search |-> [d \in Device |-> Nowhere]] /\ seen = devices
    /\ work = {}
    /\ heard = {} /\ asked = {}
    /\ changes = 0 /\ lost = 0

Present == {s \in Slot : iface[s] # "none"}

-----------------------------------------------------------------------------
HandleStarting ==
    /\ level = "CONSTRUCTED" /\ level' = "RUNNING"
    /\ check' = TRUE
    /\ UNCHANGED <<stopping, net, late, iface, advert, search, found, heard, asked, lost>>

\* OnNetworkInterfacesChanged
NetworkChanges ==
    /\ changes < MaxChanges /\ changes' = changes + 1
    /\ current' \in Currents \ {current}
    /\ check' = (check \/ level = "RUNNING")
    /\ UNCHANGED <<level, stopping, late, iface, advert, search, found, heard, asked, lost>>

\* What OnCheckNetwork creates: an interface for each adapter with an address
\* that no interface has, not even one on its way out.
ToCreate ==
    IF level = "RUNNING"
    THEN {s \in Slot : s[2] <= current[s[1]] /\ \A t \in Present : t[1] # s[1]}
    ELSE {}

\* What it asks to stop, and what it destroys.
ToStop == {s \in Slot : iface[s] = "RUNNING" /\ (level = "STOPPING" \/ current[s[1]] = 0)}
ToDestroy == {s \in Slot : iface[s] = "STOPPED"}

\* The rhythm in which an advert or a search sends begins anew.
Begun(l) == [level |-> l, count |-> 0, timer |-> "periodic"]

\* Mutant: the adverts are left as they are.
RestartAdvertsNever(new) == advert' = advert

\* RestartAdvertTimeOnNetworkChange of every advert
RestartAdverts(new) ==
    advert' = [a \in Advert |-> IF new # {} /\ advert[a].level = "RUNNING"
                                THEN Begun("RUNNING")
                                ELSE advert[a]]

\* Mutant: the devices go and their owner is not told.
RemoveInterfacesQuietly(dead) ==
    /\ devices' = [q \in Search |-> [d \in Device |->
          IF devices[q][d] \in {s[1] : s \in dead} THEN Nowhere ELSE devices[q][d]]]
    /\ UNCHANGED work

\* RemoveInterface of every search
RemoveInterfaces(dead) ==
    LET gone(q) == {d \in Device : devices[q][d] \in {s[1] : s \in dead}}
    IN  /\ devices' = [q \in Search |-> [d \in Device |->
              IF d \in gone(q) THEN Nowhere ELSE devices[q][d]]]
        /\ work' = work \cup {q \in Search : gone(q) # {}}

\* Mutant: a destroyed interface does not lead to another check.
CheckAgainNever(dead, ends) == FALSE

CheckAgain(dead, ends) == dead # {} /\ ~ends

OnCheckNetwork ==
    /\ check
    /\ LET new == ToCreate
           dead == ToDestroy
           ends == level = "STOPPING" /\ Present \subseteq dead
       IN  /\ iface' = [s \in Slot |-> IF s \in new THEN "RUNNING"
                                       ELSE IF s \in ToStop THEN "STOPPING"
                                       ELSE IF s \in dead THEN "none" ELSE iface[s]]
           /\ RestartAdverts(new)
           /\ RemoveInterfaces(dead)
           /\ heard' = {p \in heard : p[1] \notin dead}
           /\ asked' = {p \in asked : p[1] \notin dead}
           /\ check' = CheckAgain(dead, ends) /\ late' = {}
           /\ level' = IF ends THEN "STOPPED" ELSE level
    /\ UNCHANGED <<stopping, net, search, seen, lost>>

\* An interface that stops: its socket hears on until it is told, and when it
\* has stopped the callback of RequestStop schedules a check.
SocketStops(s) ==
    /\ iface[s] = "STOPPING" /\ iface' = [iface EXCEPT ![s] = "SILENT"]
    /\ UNCHANGED <<level, stopping, net, checking, advert, search, found, heard, asked, lost>>

InterfaceStops(s) ==
    /\ iface[s] = "SILENT" /\ iface' = [iface EXCEPT ![s] = "STOPPED"]
    /\ check' = TRUE
    /\ UNCHANGED <<level, stopping, net, late, advert, search, found, heard, asked, lost>>

-----------------------------------------------------------------------------
\* The timer of an advert or a search fires: it counts, sends, and after the
\* fourth time waits longer.  Counts above three are alike.
Counted(r) ==
    LET n == IF r.count < 4 THEN r.count + 1 ELSE 4
    IN  [level |-> r.level, count |-> n, timer |-> IF n > 3 THEN "single" ELSE r.timer]

\* A check that is scheduled runs within the second between two of an advert's timeouts.
Due(a) == ~(check /\ a \in late) /\ late' = IF check THEN late \cup {a} ELSE {}

\* Send through the interfaces out; those whose address has gone reach nobody.
SentTo(out, reached) ==
    /\ reached \subseteq {s \in out : current[s[1]] > 0}
    /\ lost' = lost + Cardinality({s \in out : current[s[1]] > 0} \ reached)
    /\ lost' <= MaxLost

Pair(set, x) == {<<s, x>> : s \in set}

AdvertStarts(a) ==
    /\ level = "RUNNING" /\ ~stopping /\ advert[a].level = "CONSTRUCTED"
    /\ advert' = [advert EXCEPT ![a] = Begun("RUNNING")]
    /\ UNCHANGED <<level, stopping, net, checking, iface, search, found, heard, asked, lost>>

AdvertStopping(a) ==
    /\ stopping /\ advert[a].level = "RUNNING"
    /\ advert' = [advert EXCEPT ![a] = Begun("STOPPING")]
    /\ UNCHANGED <<level, stopping, net, checking, iface, search, found, heard, asked, lost>>

AdvertTimerExpired(a) ==
    /\ Due(a) /\ advert[a].timer # "off"
    /\ \E reached \in SUBSET Present :
          /\ SentTo({s \in Present : s[1] \in Located}, reached)
          /\ heard' = IF advert[a].level = "RUNNING" THEN heard \cup Pair(reached, a)
                      ELSE heard \ Pair(reached, a)
    /\ LET r == Counted(advert[a])
       IN  advert' = [advert EXCEPT ![a] =
              IF r.count > 3 /\ r.level = "STOPPING"
              THEN [level |-> "STOPPED", count |-> r.count, timer |-> "off"] ELSE r]
    /\ UNCHANGED <<level, stopping, net, check, iface, search, found, asked>>

Hears(s) == iface[s] \in {"RUNNING", "STOPPING"} /\ current[s[1]] > 0

\* HandleReceivedPacket of a neighbour's M-SEARCH: the running adverts answer.
DiscoverReceived(s, a) ==
    /\ Hears(s) /\ s[1] \in Located /\ advert[a].level = "RUNNING"
    /\ heard' = heard \cup {<<s, a>>}
    /\ UNCHANGED <<level, stopping, net, checking, iface, advert, search, found, asked, lost>>

-----------------------------------------------------------------------------
SearchStarts(q) ==
    /\ level = "RUNNING" /\ ~stopping /\ search[q].level = "CONSTRUCTED"
    /\ search' = [search EXCEPT ![q] = Begun("RUNNING")]
    /\ UNCHANGED <<level, stopping, net, checking, iface, advert, found, heard, asked, lost>>

SearchStopping(q) ==
    /\ stopping /\ search[q].level = "RUNNING"
    /\ search' = [search EXCEPT ![q].level = "STOPPED", ![q].timer = "off"]
    /\ devices' = [devices EXCEPT ![q] = [d \in Device |-> Nowhere]]
    /\ work' = work \ {q}
    /\ UNCHANGED <<level, stopping, net, checking, iface, advert, seen, heard, asked, lost>>

SearchTimerExpired(q) ==
    /\ search[q].timer # "off"
    /\ \E reached \in SUBSET Present :
          SentTo(Present, reached) /\ asked' = asked \cup Pair(reached, q)
    /\ search' = [search EXCEPT ![q] = Counted(@)]
    /\ UNCHANGED <<level, stopping, net, checking, iface, advert, found, heard>>

\* The searches a packet about a device is for.
For(d) == {q \in Search : search[q].level = "RUNNING" /\ d \in Wanted[q]}

\* A device is heard, or not any more, through x: HandleNotification, RemoveDevice.
Noticed(d, x) ==
    LET changed == {q \in For(d) : devices[q][d] # x}
    IN  /\ devices' = [q \in Search |-> IF q \in changed THEN [devices[q] EXCEPT ![d] = x] ELSE devices[q]]
        /\ work' = work \cup changed

\* HandleReceivedPacket of an announcement or answer, and of a goodbye.
DeviceReceived(s, d) ==
    /\ Hears(s) /\ \E x \in {s[1], Nowhere} : Noticed(d, x)
    /\ UNCHANGED <<level, stopping, net, checking, iface, advert, search, seen, heard, asked, lost>>

\* The owner's handler reads GetCurrentDeviceMap.
HandleDevicesChanged(q) ==
    /\ q \in work /\ work' = work \ {q}
    /\ seen' = [seen EXCEPT ![q] = devices[q]]
    /\ UNCHANGED <<level, stopping, net, checking, iface, advert, search, devices, heard, asked, lost>>

-----------------------------------------------------------------------------
RequestStop ==
    /\ level = "RUNNING" /\ ~stopping /\ stopping' = TRUE
    /\ UNCHANGED <<level, net, checking, iface, advert, search, found, heard, asked, lost>>

\* Those that use the service have stopped first.
HandleStopping ==
    /\ stopping /\ level = "RUNNING"
    /\ \A a \in Advert : advert[a].level \in {"CONSTRUCTED", "STOPPED"}
    /\ \A q \in Search : search[q].level \in {"CONSTRUCTED", "STOPPED"}
    /\ level' = "STOPPING" /\ check' = TRUE
    /\ UNCHANGED <<stopping, net, late, iface, advert, search, found, heard, asked, lost>>

Stopped == level = "STOPPED" /\ UNCHANGED vars

Interface(s) == SocketStops(s) \/ InterfaceStops(s)
Advertise(a) == AdvertStarts(a) \/ AdvertStopping(a) \/ AdvertTimerExpired(a)
Seek(q) == SearchStarts(q) \/ SearchStopping(q) \/ SearchTimerExpired(q) \/ HandleDevicesChanged(q)

Next ==
    \/ HandleStarting \/ NetworkChanges \/ OnCheckNetwork \/ RequestStop \/ HandleStopping \/ Stopped
    \/ \E s \in Slot : Interface(s)
    \/ \E a \in Advert : Advertise(a) \/ \E s \in Slot : DiscoverReceived(s, a)
    \/ \E q \in Search : Seek(q)
    \/ \E s \in Slot, d \in Device : DeviceReceived(s, d)

Spec == Init /\ [][Next]_vars

\* The proactor runs its handlers and the timers fire.
FairSpec ==
    /\ Spec
    /\ WF_vars(HandleStarting) /\ WF_vars(OnCheckNetwork) /\ WF_vars(HandleStopping)
    /\ \A s \in Slot : WF_vars(Interface(s))
    /\ \A a \in Advert : WF_vars(AdvertStarts(a) \/ AdvertStopping(a)) /\ WF_vars(AdvertTimerExpired(a))
    /\ \A q \in Search : /\ WF_vars(SearchStarts(q) \/ SearchStopping(q))
                         /\ WF_vars(SearchTimerExpired(q)) /\ WF_vars(HandleDevicesChanged(q))

-----------------------------------------------------------------------------
Level == {"CONSTRUCTED", "RUNNING", "STOPPING", "STOPPED"}
Timed == [level : Level, count : 0 .. 4, timer : {"off", "periodic", "single"}]

\* The variables have their types.
TypeOK ==
    /\ level \in Level /\ stopping \in BOOLEAN /\ check \in BOOLEAN /\ late \subseteq Advert
    /\ current \in Currents
    /\ iface \in [Slot -> {"none", "RUNNING", "STOPPING", "SILENT", "STOPPED"}]
    /\ advert \in [Advert -> Timed] /\ search \in [Search -> Timed]
    /\ devices \in [Search -> [Device -> Address \cup {Nowhere}]] /\ seen \in [Search -> [Device -> Address \cup {Nowhere}]]
    /\ work \subseteq Search
    /\ heard \subseteq Slot \X Advert /\ asked \subseteq Slot \X Search
    /\ changes \in 0 .. MaxChanges /\ lost \in 0 .. MaxLost

\* A search knows no device through an interface that has been destroyed,
\* although packets still come in while one stops, and its owner has seen what
\* it knows or is about to be called.
DevicesReachable ==
    \A q \in Search :
        /\ \A d \in Device : devices[q][d] # Nowhere => \E s \in Present : s[1] = devices[q][d]
        /\ search[q].level = "RUNNING" => devices[q] = seen[q] \/ q \in work

\* No wake up of the check is lost: when none is scheduled and no interface is
\* on its way out, the interfaces are those of the adapters.
CheckedWhenQuiet ==
    level \in {"RUNNING", "STOPPING"} /\ ~check /\ (\A s \in Present : iface[s] = "RUNNING") =>
        /\ level = "RUNNING"
        /\ {s[1] : s \in Present} = {x \in Address : current[x] > 0}

\* The interfaces, the searches and the scheduled work agree.
Consistent ==
    /\ TypeOK /\ DevicesReachable /\ CheckedWhenQuiet
    /\ level = "STOPPED" => Present = {} /\ ~check

\* Four messages make up for three that are lost, with a datagram or because the
\* address they are sent from has just gone: an advert that has finished its four announcements is known
\* on every running interface, the new ones too, and one that has stopped on none.
NeighboursKnow ==
    changes + lost <= 3 =>
        \A a \in Advert, s \in Slot : iface[s] = "RUNNING" /\ s[1] \in Located =>
            /\ advert[a].timer = "single" => <<s, a>> \in heard
            /\ advert[a].level = "STOPPED" => <<s, a>> \notin heard

\* The interfaces come to be those of the adapters, and every search has asked on
\* each, on one that came after it had become slow too; and a stop ends, after
\* the goodbyes.
Settles ==
    /\ <>[](level = "RUNNING" =>
             /\ {s \in Slot : iface[s] = "RUNNING"} = Present
             /\ {s[1] : s \in Present} = {x \in Address : current[x] > 0}
             /\ \A q \in Search : search[q].level = "RUNNING" => Pair(Present, q) \subseteq asked)
    /\ stopping ~> level = "STOPPED"
=============================================================================
