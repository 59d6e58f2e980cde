SPECIFICATION FairTreeSpec
CONSTANTS
  a = a
  b = b
  c = c
  d = d
  e = e
  None = None
  Node <- MCNode
  Root = a
  Nbr <- DiamondTail
INVARIANTS AnswersAddUp TreeAgreement NoLateAnswer RootIsLast Inv
PROPERTIES TreeRefinement EventuallyPrepared
CHECK_DEADLOCK FALSE
