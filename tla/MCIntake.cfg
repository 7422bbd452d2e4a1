SPECIFICATION LiveSpec
CONSTANTS
  Posts = {1, 2}
  BatchMax = 2
  BusMax = 1
  SeenMax = 2
  Keep = 1
  Retries = 1
  MaxUpd = 4
  MaxFaults = 2
INVARIANTS TypeOK ForgottenWasPushed
PROPERTIES PushedOnce SavedIsNotRepeated Arrives
CHECK_DEADLOCK FALSE
