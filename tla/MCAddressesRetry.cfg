SPECIFICATION BookSpec
CONSTANTS
  Ids = {a1, a2, a3}
  Callers = {h1, h2}
  NoId = NoId
SYMMETRY Symmetric
INVARIANTS ConflictIsRetried
