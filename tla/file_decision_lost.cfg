CONSTANTS
  o1 = o1  o2 = o2
  Ops <- OneOp
  Slots = 2
  MaxTx = 2
  DefaultAction = "allow"
SPECIFICATION Spec
INVARIANT NoDecisionLost
CHECK_DEADLOCK FALSE
