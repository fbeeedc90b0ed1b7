SPECIFICATION FairTreeSpec
CONSTANTS
  Categories = {c1, c2, c3}
  Editors = {h1, h2}
  Root = Root
INVARIANTS SerialUpdatesKeepTree
PROPERTIES CallsReturn
