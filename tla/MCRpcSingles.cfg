SPECIFICATION LiveSpec
CONSTANTS
    c1 = c1
    c2 = c2
    c3 = c3
    NoCall = NoCall
    Singles = {c1, c2}
    Batches <- NoBatches
    MaxId = 4
    MaxSalt = 1
INVARIANTS TypeOK OneEntryPerOpenCall RunAtMostOnce OutcomeOfFuture RejectedNotLeftPending
PROPERTY CallsReturn
