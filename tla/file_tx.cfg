CONSTANTS
  o1 = o1  o2 = o2
  Ops <- TwoOps
  Slots = 2
  MaxTx = 3
  DefaultAction = "allow"
SPECIFICATION FairSpec
INVARIANTS TypeOK TrackerPointsToWaiters WokenByOwnDecision VerdictBeforeWrap
PROPERTY OpsComeBack
CHECK_DEADLOCK FALSE
