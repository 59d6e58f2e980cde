SPECIFICATION Spec
CONSTANTS
  a = a
  b = b
  c = c
  d = d
  e = e
  None = None
  Node <- MCNode4
  Root = a
  Nbr <- Complete4
  Refuser = {}
  MayTimeout = FALSE
INVARIANTS ReadsUntilAllReceived
CHECK_DEADLOCK FALSE
