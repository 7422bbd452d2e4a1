SPECIFICATION LiveSpec
CONSTANTS
    c1 = c1
    c2 = c2
    Callers = {c1, c2}
    Cancellable = {c1}
    MaxReaders = 5
    LossKinds = {"reset", "timeout"}
    MaxLosses = 1
    MaxFailures = 1
    MayClose = TRUE
INVARIANTS OneConnects WaitsEnd ClosedIsQuiet
PROPERTY CloseReturns
CHECK_DEADLOCK FALSE
