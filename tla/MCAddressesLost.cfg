SPECIFICATION BookSpec
CONSTANTS
  Ids = {a1, a2}
  Callers = {h1, h2}
  NoId = NoId
SYMMETRY Symmetric
PROPERTIES DefaultIsNotLost
