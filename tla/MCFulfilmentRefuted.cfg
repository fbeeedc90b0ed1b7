\* Statements that TLC refutes: keep one at a time.
SPECIFICATION Spec
CONSTANTS
  n1 = n1
  Orders = {o1}
  Numbers = {n1, n2}
  NoNumber = NoNumber
  NoOrder = NoOrder
  Pollers = {w1}
  Completers = {d1}
  PollLimit = 2
  BatchSize = 2
PROPERTIES
  RejectedIsSpared
  DeliveredUnderItsNumber
