CONSTANTS
  list = list
  p1 = p1  p2 = p2  crafted = crafted
  Lists <- OneList
  Content <- MCContent
  Path <- MCPath
  Layers <- NetworkOnly
  Programs <- NothingPasses
  Crafted = crafted
  MaxSends = 0
  Slots = 2
SPECIFICATION Spec
INVARIANT IgnoredNotBlocked
CHECK_DEADLOCK FALSE
