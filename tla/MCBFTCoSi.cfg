SPECIFICATION FairSpec
CONSTANTS
  a = a
  b = b
  c = c
  d = d
  e = e
  None = None
  Node <- MCNode
  Root = a
  Nbr <- DiamondTail
  Refuser = {d}
  MayTimeout = TRUE
INVARIANTS SignatureCoversRing RoundsDoNotMix DoneIsFinal ChecksNeverFail RoundInv
PROPERTIES SigningRefinement RootEnds EventuallySigned
CHECK_DEADLOCK FALSE
