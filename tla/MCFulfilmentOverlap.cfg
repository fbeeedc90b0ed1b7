\* Two runs of the poll at once: a run may outlast its interval.
SPECIFICATION Spec
CONSTANTS
  n1 = n1
  Orders = {o1}
  Numbers = {n1}
  NoNumber = NoNumber
  NoOrder = NoOrder
  Pollers = {w1, w2}
  Completers = {d1}
  PollLimit = 1
  BatchSize = 1
INVARIANT RecordShowsDelivery
