\* One request at a time beside the timeout job and the reconciliation job.
CONSTANTS
  h1 = h1
  h2 = h2
  h3 = h3
  o1 = o1
  Orders = {o1}
  Payments = {1, 2}
  OwnerOf <- MCOwnerOf
  MaxRefunds = 1
  Requesters = {h1}
  Cancellers = {h2}
  Reconcilers = {h3}
  AdminOverride = FALSE
  NoOrder = NoOrder
SPECIFICATION FairSpec
INVARIANTS StatusMatchesMoney
PROPERTIES ProcessingRefundSettles PendingOrderResolves
CHECK_DEADLOCK FALSE
