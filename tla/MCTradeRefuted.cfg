\* Statements that TLC refutes: keep one at a time, or run with -continue.
CONSTANTS
  h1 = h1
  h2 = h2
  h3 = h3
  o1 = o1
  Orders = {o1}
  Payments = {1, 2}
  OwnerOf <- MCOwnerOf
  MaxRefunds = 2
  Requesters = {h1, h2}
  Cancellers = {h1, h2}
  Reconcilers = {h1, h2}
  AdminOverride = FALSE
  NoOrder = NoOrder
SPECIFICATION Spec
SYMMETRY Slots
INVARIANTS
  CancelledPaymentHasRefund
  RefundedPaymentClosesOrder
  AbnormalRefundCanBeRetried
  OnePendingPayment
  VoidedPaymentHasNoPayload
CHECK_DEADLOCK FALSE
