SPECIFICATION LiveSpec
CONSTANTS
  LayerOf <- Layers
  Floor = 1
  MaxVer = 3
  MaxFaults = 2
  Tasks = {1, 2}
  MaxKeys = 2
  MaxSenders = 3
  MaxUpsets = 1
  Part = 2
  MaxUnits = 9
  MaxConns = 3
  MaxParts = 6
  Keys = {1, 2}
  Ttls = {0, 1, 2}
  MaxTime = 3
  MaxSaves = 1
  Items = {1, 2, 3}
  Batches = {1, 2}
  Limits = {0, 3}
  MaxChanges = 2
  Ids = {1, 2}
  MaxMade = 2
  MaxTrouble = 3
  MaxExports = 2
  MaxPhones = 2
  MaxErrors = 2
INVARIANTS TypeOK EtagsNotAhead FailuresHaveCause PiecesMakeWhole SurvivesRestart
PROPERTY Completes
CHECK_DEADLOCK FALSE
