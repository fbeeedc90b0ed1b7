SPECIFICATION DeskSpec
CONSTANTS
  t1 = t1
  t2 = t2
  Tabs = {t1, t2}
  MaxNonce = 2
  MaxPayments = 2
  Scenarios <- Worlds
  NoState = NoState
  Unsent = Unsent
  Refused = Refused
  Done = Done
  NoChannel = NoChannel
  d1 = d1
  d2 = d2
  c1 = c1
  c2 = c2
  Desks = {d1, d2}
  Calls = {c1, c2}
  Waybills = {n1}
  NoWaybill = NoWaybill
  NoDesk = NoDesk
INVARIANTS DeskTypeOK ShownWasTrue AuthorisedTabReturns AnnouncedOnce
PROPERTIES SpentNonceIsRefused PollingPageCatchesUp PaidTradeIsHeard ShippedBlindly
CHECK_DEADLOCK FALSE
