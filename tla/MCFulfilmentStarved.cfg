SPECIFICATION DailySpec
CONSTANTS
  n1 = n1
  Orders = {o1, o2}
  Numbers = {n1}
  NoNumber = NoNumber
  NoOrder = NoOrder
  Pollers = {w1}
  Completers = {d1}
  PollLimit = 1
  BatchSize = 1
PROPERTIES OverdueOrderCompletes
