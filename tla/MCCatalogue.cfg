SPECIFICATION MCSpec
CONSTANTS
  p1 = p1
  s1 = s1
  Products = {p1, p2}
  Skus = {s1, s2}
  Admins = {a1, a2}
  Buyers = {b1}
  Typed = {"archived"}
  MaxStock = 1
  MaxOrdered = 1
  None = None
SYMMETRY Symmetric
CONSTRAINT TwoAtATime
INVARIANTS StockAccounted WithdrawnByHand StatusAsChosen OrderedSkusRemain
CHECK_DEADLOCK FALSE
