SPECIFICATION FairSpec
CONSTANTS
  a = a
  b = b
  c = c
  d = d
  Node <- MCNode
  Root = a
  Children <- MCChildren
  GraphParent <- MCParent
  Alive = {a, b, d}
PROPERTY WillPrint
CHECK_DEADLOCK FALSE
