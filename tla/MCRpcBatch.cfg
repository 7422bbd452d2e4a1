SPECIFICATION Spec
CONSTANTS
    c1 = c1
    c2 = c2
    c3 = c3
    NoCall = NoCall
    Singles = {c1}
    Batches <- OnePair
    MaxId = 7
    MaxSalt = 1
INVARIANTS IInv AnswerToOwnCall
PROPERTY KeepsPromise

