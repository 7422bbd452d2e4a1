SPECIFICATION LiveSpec
CONSTANTS
    c1 = c1
    c2 = c2
    Callers = {c1, c2}
    Cancellable = {}
    MaxReaders = 3
    LossKinds = {"reset", "timeout"}
    MaxLosses = 2
    MaxFailures = 2
    MayClose = FALSE
INVARIANTS TypeOK OneReads PingsKnown SomebodyReads
PROPERTIES RequestsReturn ResetsRepaired
CHECK_DEADLOCK FALSE
