\* Two events, two dispatchers, the second attempt is the last one.
CONSTANTS
  d1 = d1
  d2 = d2
  Events = {1, 2}
  Dispatchers = {d1, d2}
  BatchSize = 2
  MaxAttempts = 2
  CountCap = 3
  Forgetful = FALSE
  NoEvent = NoEvent
SPECIFICATION Spec
SYMMETRY Replicas
INVARIANTS OneHolderPerClaim EmailQueuedOnce
PROPERTY DeliversEvents
CHECK_DEADLOCK FALSE
