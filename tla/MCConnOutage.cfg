SPECIFICATION LiveSpec
CONSTANTS
    c1 = c1
    c2 = c2
    Callers = {}
    Cancellable = {}
    MaxReaders = 3
    LossKinds = {"reset"}
    MaxLosses = 1
    MaxFailures = 1
    MayClose = FALSE
PROPERTY Reconnects
CHECK_DEADLOCK FALSE
