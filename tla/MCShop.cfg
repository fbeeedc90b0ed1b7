SPECIFICATION Spec
CONSTANTS
  Skus = {s1, s2}
  Tabs = {t1, t2}
  Addresses = {d1, d2}
  Slots = {i1, i2}
  MaxQuantity = 2
  MaxKeys = 2
  MaxTrouble = 3
  None = None
SYMMETRY Symmetric
CONSTRAINT Bounded
INVARIANTS LastChoiceStands KeyGivenUpHasNoOrder
CHECK_DEADLOCK FALSE
