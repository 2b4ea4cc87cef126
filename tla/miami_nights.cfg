SPECIFICATION MCSpec
CONSTANTS
    Buttons = {back, one}
    back = back
    Colors = {black, pink}
    black = black
    rainbow = rainbow
    MaxEvents = 3
    MaxPresses = 2
    MaxColors = 1
    MaxBreaks = 2
    MaxFailures = 1
    NumRows = 5
    HiddenRows = 2
    NumCols = 4
    SPEED = 1
    HOLD_TIME = 2
    RECLICK_TIME = 1
    Kinds = {0, 2}
    Gaps = {0, 1}
    Hands <- MCHands
    MaxPieces = 3
INVARIANTS
    AgreeWhenQuiet
    Consistent
    EmulatorHasScreen
    TetrisConsistent
PROPERTIES
    CabinetConverges
    ScreenReturns
