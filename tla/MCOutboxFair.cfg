\* One event at a time, dispatched fairly, with a queue that forgets.
CONSTANTS
  d1 = d1
  d2 = d2
  Events = {1}
  Dispatchers = {d1, d2}
  BatchSize = 1
  MaxAttempts = 2
  CountCap = 3
  Forgetful = TRUE
  NoEvent = NoEvent
SPECIFICATION FairSpec
PROPERTY EventSettles
CHECK_DEADLOCK FALSE
