----------------------------- MODULE MCDiscovery -----------------------------
(***************************************************************************)
(* A UDP socket whose owner reads now and then; the discovery service with *)
(* an advert; and the service with a search and a device.  Up to two       *)
(* addresses, one of which two adapters may have.  The variables of what   *)
(* is not in the build keep their initial values.                          *)
(***************************************************************************)
EXTENDS SsdpDiscovery

CONSTANTS MaxQueued, ethernet, wifi, advert1, search1

VARIABLES build, ulevel, ustopping, enabled, pending, reading, done, queued, busy

Socket == INSTANCE UdpSocket WITH level <- ulevel, stopping <- ustopping

ASSUME MCDiscoveryAssumption == Socket!UdpSocketAssumption

udp == <<ulevel, ustopping, enabled, pending, reading, done, queued, busy>>
allVars == <<build, vars, udp>>

MCCurrents ==
    {[x \in Address |-> IF x \in up THEN 1 ELSE 0] : up \in {{}, {ethernet}, Address}}
        \cup {[x \in Address |-> IF x = ethernet THEN 2 ELSE 0]}

MCWanted == [q \in Search |-> Device]

Udp(A) == build = "socket" /\ A /\ UNCHANGED <<build, vars>>
Ssdp(A) == build # "socket" /\ A /\ UNCHANGED <<build, udp>>
With(name, A) == build = name /\ Ssdp(A)

\* The discovery service with an advert or with a search.
MCSsdp ==
    \/ Ssdp(HandleStarting \/ NetworkChanges \/ OnCheckNetwork)
    \/ Ssdp(RequestStop \/ HandleStopping \/ Stopped \/ \E s \in Slot : Interface(s))
    \/ With("advert", \E a \in Advert : Advertise(a) \/ \E s \in Slot : DiscoverReceived(s, a))
    \/ With("search", \E q \in Search : Seek(q))
    \/ With("search", \E s \in Slot, d \in Device : DeviceReceived(s, d))

\* Both addresses are there at first.
MCInit ==
    /\ build \in {"socket", "advert", "search"} /\ Init /\ Socket!Init
    /\ current = [x \in Address |-> 1]

MCNext == Udp(Socket!Next) \/ MCSsdp

\* The fairness each assumes, in its own build.
MCSpec ==
    /\ MCInit /\ [][MCNext]_allVars
    /\ SF_allVars(Udp(Socket!Receive)) /\ SF_allVars(Udp(Socket!HandleStopping))
    /\ WF_allVars(Udp(Socket!HandleRead)) /\ WF_allVars(Udp(Socket!CallbackReturns))
    /\ WF_allVars(Ssdp(HandleStarting)) /\ WF_allVars(Ssdp(OnCheckNetwork))
    /\ WF_allVars(Ssdp(HandleStopping))
    /\ \A s \in Slot : WF_allVars(Ssdp(Interface(s)))
    /\ \A a \in Advert : /\ WF_allVars(With("advert", AdvertStarts(a) \/ AdvertStopping(a)))
                         /\ WF_allVars(With("advert", AdvertTimerExpired(a)))
    /\ \A q \in Search : /\ WF_allVars(With("search", SearchStarts(q) \/ SearchStopping(q)))
                         /\ WF_allVars(With("search", SearchTimerExpired(q)))
                         /\ WF_allVars(With("search", HandleDevicesChanged(q)))

-----------------------------------------------------------------------------
\* UdpSocket's counter, asio and the owner agree: its Consistent.
SocketConsistent == Socket!Consistent

\* What is in the build comes to rest: the socket reads what arrives, the
\* service follows the adapters, and both stop when they are told to.
BothSettle == Socket!ReadsAndStops /\ Settles
=============================================================================
