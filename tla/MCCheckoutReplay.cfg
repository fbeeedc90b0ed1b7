\* Two requests at a time.
CONSTANTS
  a = a
  b = b
  home = home
  work = work
  Skus = {a, b}
  Addresses = {home, work}
  Bodies <- MCBodies
  Keys = {k1}
  Callers = {c1, c2}
  Orders = {1, 2}
  InitialStock <- MCInitialStock
  NoKey = NoKey
  NoBody = NoBody
  NoOrder = NoOrder
  Nobody = Nobody
SPECIFICATION Spec
INVARIANT ReplayHasSameBody
CHECK_DEADLOCK FALSE
