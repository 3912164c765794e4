CONSTANTS
  t1 = t1  t2 = t2
  Threads <- TwoThreads
  Pushes = 1
  MaxNodes = 3
  Delays <- InOrder
SPECIFICATION Spec
INVARIANT NoDanglingAccess
CHECK_DEADLOCK FALSE
