SPECIFICATION FairSpec
CONSTANTS
  a = a
  b = b
  c1 = c1
  c2 = c2
  None = None
  Node <- MCNode
  Bunch <- MCBunch
  Rings <- MCRings
  Call <- MCCall
  CallNode <- MCCallNode
  ReqId <- MCReqId
INVARIANTS SuccessMeansAllRings WaitGroupCounts DoneNeverPanics ServiceInv
PROPERTIES EveryCallEnds
CHECK_DEADLOCK FALSE
