SPECIFICATION LiveSpec
CONSTANTS
  Tasks = {1, 2}
  SliceSize = 1
  MaxTries = 2
  MaxPts = 2
  MaxChan = 2
  MaxWire = 2
  MaxFaults = 1
INVARIANTS TypeOK SkippedForCause NoticesServed
PROPERTY RecoveryEnds
CHECK_DEADLOCK FALSE
