SPECIFICATION FairSpec
CONSTANTS
    MaxSends = 3
INVARIANTS
    ConnectedAtStartRead
