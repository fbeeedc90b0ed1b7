SPECIFICATION Spec
CONSTANTS
  a1 = a1
  b1 = b1
  b2 = b2
  t1 = t1
  t2 = t2
  Users = {a1, u1}
  Admins <- TheAdmins
  Sids = {s1, s2}
  Tokens = {k1}
  Browsers = {b1, b2}
  Tabs = {t1, t2}
  BrowserOf <- TheBrowsers
  SessionTTL = 3
  None = None
SYMMETRY Symmetric
CONSTRAINT ResetOrSessions
INVARIANTS StaleSessionEscaped SomeAdminRemains TokenSpentOnce
CHECK_DEADLOCK FALSE
