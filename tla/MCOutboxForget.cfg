\* As MCOutbox, with a queue that forgets.
CONSTANTS
  d1 = d1
  d2 = d2
  Events = {1}
  Dispatchers = {d1, d2}
  BatchSize = 1
  MaxAttempts = 2
  CountCap = 3
  Forgetful = TRUE
  NoEvent = NoEvent
SPECIFICATION Spec
INVARIANT EmailQueuedOnce
CHECK_DEADLOCK FALSE
