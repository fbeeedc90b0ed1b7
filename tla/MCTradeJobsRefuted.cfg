\* Statements that TLC refutes: keep one at a time.
CONSTANTS
  h1 = h1
  h2 = h2
  h3 = h3
  o1 = o1
  Orders = {o1}
  Payments = {1, 2}
  OwnerOf <- MCOwnerOf
  MaxRefunds = 2
  Requesters = {h1}
  Cancellers = {h2}
  Reconcilers = {h3}
  AdminOverride = FALSE
  NoOrder = NoOrder
SPECIFICATION FairSpec
PROPERTIES
  PaidTradeIsBooked
  ChannelRefundIsRecorded
  AutoCancelSparesPaid
CHECK_DEADLOCK FALSE
