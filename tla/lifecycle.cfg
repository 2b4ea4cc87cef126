SPECIFICATION FairSpec
CONSTANTS
    Root = "proactor"
    Service <- NetService
    Resource <- NetResource
    Parent <- NetParent
    Reference <- NetReference
    RefTarget <- NetTarget
    DependsOn <- NetDependsOn
    Member <- NetMember
    Prompt <- NetPrompt
INVARIANTS
    TypeOK
    NoAssertionFails
    ServicesAvailable
    NoLostWakeup
    StopIsComplete
PROPERTIES
    ImplementsContract
    StartsAndStops
