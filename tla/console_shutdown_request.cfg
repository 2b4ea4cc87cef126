SPECIFICATION Spec
CONSTANTS
    Main = main
    Others = {pool}
    Signals = {SIGINT, SIGTERM}
    MaxSignals = 1
INVARIANT
    RequestStopWhenRunning
