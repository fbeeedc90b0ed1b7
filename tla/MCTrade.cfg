\* One order, two payments, two refund numbers, three concurrent calls of any kind,
\* and admins writing statuses by hand.
CONSTANTS
  h1 = h1
  h2 = h2
  h3 = h3
  o1 = o1
  Orders = {o1}
  Payments = {1, 2}
  OwnerOf <- MCOwnerOf
  MaxRefunds = 2
  Requesters = {h1, h2, h3}
  Cancellers = {h1, h2, h3}
  Reconcilers = {h1, h2, h3}
  AdminOverride = TRUE
  NoOrder = NoOrder
SPECIFICATION Spec
SYMMETRY ThreeSlots
INVARIANTS OnePaymentPerOrder RefundsBackedByChannel OneLiveRefundPerOrder SettledRefundIsBooked StockReturnedOnce
CHECK_DEADLOCK FALSE
