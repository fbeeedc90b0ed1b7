\* As MCOutbox, with one event.
CONSTANTS
  d1 = d1
  d2 = d2
  Events = {1}
  Dispatchers = {d1, d2}
  BatchSize = 1
  MaxAttempts = 2
  CountCap = 3
  Forgetful = FALSE
  NoEvent = NoEvent
SPECIFICATION Spec
INVARIANT AttemptsAreLimited
CHECK_DEADLOCK FALSE
