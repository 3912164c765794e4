CONSTANTS
  c1 = c1  c2 = c2  d1 = d1  d2 = d2
  Clients <- OneClient
  Cores <- OneCore
  Owns <- AllCores
  Callouts <- OneCallout
  MaxUnread = 2
  Layer = "ale"
  Delays <- InOrder
SPECIFICATION Spec
INVARIANT NoLostWakeup
CHECK_DEADLOCK FALSE
