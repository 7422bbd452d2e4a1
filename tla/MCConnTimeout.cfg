SPECIFICATION LiveSpec
CONSTANTS
    c1 = c1
    c2 = c2
    Callers = {c1}
    Cancellable = {}
    MaxReaders = 3
    LossKinds = {"timeout"}
    MaxLosses = 1
    MaxFailures = 0
    MayClose = FALSE
PROPERTY LossesRepaired
CHECK_DEADLOCK FALSE
