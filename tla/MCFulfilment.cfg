SPECIFICATION MCFairSpec
CONSTANTS
  n1 = n1
  Orders = {o1}
  Numbers = {n1, n2}
  NoNumber = NoNumber
  NoOrder = NoOrder
  Pollers = {w1, w2}
  Completers = {d1}
  PollLimit = 1
  BatchSize = 1
INVARIANTS DeliveryIsOnRecord
PROPERTIES ClosedOnce DeliveredOrderCompletes OverdueOrderCompletes
