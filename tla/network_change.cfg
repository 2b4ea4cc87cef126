SPECIFICATION MCSpec
CONSTANTS
    ethernet = ethernet
    wifi = wifi
    Adapters <- MCAdapters
    Handlers = {ssdp, other}
    MaxPending = 3
INVARIANTS
    OneAtATime
    MembersInformed
    Win32Consistent
PROPERTIES
    BothConverge
    BothStartAndStop
