CONSTANTS
  list = list
  p1 = p1  p2 = p2  crafted = crafted
  Lists <- OneList
  Content <- MCContent
  Path <- MCPath
  Layers <- AllLayers
  Programs <- MCPrograms
  Crafted = crafted
  MaxSends = 2
  Slots = 2
SPECIFICATION Spec
INVARIANTS TypeOK InterceptedOnce DeliveredOnce AnsweredOnce
CHECK_DEADLOCK FALSE
