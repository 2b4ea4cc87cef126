SPECIFICATION MCSpec
CONSTANTS
    MaxTokens = 8
    MaxWaits = 3
    Times = {0, 2, 4}
    Forever = 4
    Refs = {network, other}
    MaxItems = 3
    Main = main
    Others = {pool}
    Signals = {SIGINT, SIGTERM}
    MaxSignals = 3
    Notes = {c, e}
    MaxEvents = 2
INVARIANTS
    Consistent
    OthersConsistent
    AudioConsistent
PROPERTIES
    ImplementPromises
    AllProgress
