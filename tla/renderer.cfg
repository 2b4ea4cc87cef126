SPECIFICATION FairSpec
CONSTANTS
    Names = {"White", "Wave"}
    Default = "White"
    Unknown = "?"
    Entries <- MCEntries
    Patterns = {"black", "white", "blue", "green"}
    Black = "black"
    Transitions <- MCTransitions
    Created <- MCCreated
    Duration <- MCDuration
    Steps <- MCSteps
    Nothing = Nothing
    MaxAge = 5
INVARIANTS
    Consistent
PROPERTIES
    Smooth
    Settles
