SPECIFICATION LiveSpec
CONSTANTS
  m1 = m1
  m2 = m2
  u1 = u1
  Msgs = {m1, m2}
  Users = {u1}
  From <- Authors
  Asks = {a1, a2}
  NoAsk = NoAsk
  Err = Err
  Hooks = 1
  BusMax = 2
  Window = 1
  MaxTime = 3
  MaxPush = 3
  MaxAsks = 2
INVARIANTS TypeOK WaitersAreRegistered HandlersWaitInVain
PROPERTIES NotTwiceInWindow DroppedIsRecent Settles
CHECK_DEADLOCK FALSE
