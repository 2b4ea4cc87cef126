SPECIFICATION MCSpec
CONSTANTS
    MaxQueued = 2
    ethernet = ethernet
    wifi = wifi
    advert1 = advert1
    search1 = search1
    Address = {ethernet, wifi}
    Currents <- MCCurrents
    Advert = {advert1}
    Search = {search1}
    Device = {box}
    Located = {ethernet, wifi}
    Wanted <- MCWanted
    Nowhere = Nowhere
    MaxChanges = 2
    MaxLost = 1
INVARIANTS
    Consistent
    NeighboursKnow
    SocketConsistent
PROPERTY
    BothSettle
