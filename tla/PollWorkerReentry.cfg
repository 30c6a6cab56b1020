CONSTANTS
    MaxSignals = 1
    EarlySignal = FALSE
SPECIFICATION FairSpec
CHECK_DEADLOCK FALSE
PROPERTIES
    HandlerReturns
