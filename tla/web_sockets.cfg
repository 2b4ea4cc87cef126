SPECIFICATION MCSpec
CONSTANTS
    MaxSends = 3
    MaxReceived = 2
INVARIANTS
    Consistent
    OthersConsistent
PROPERTIES
    ServerImplementsChannel
    ClientProgress
