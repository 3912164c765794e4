CONSTANTS
  p1 = p1  p2 = p2  r1 = r1  r2 = r2
  Producers <- TwoProducers
  Readers <- OneReader
  Preempts <- DpcOverThread
  Size = 4
  Lens = {1, 2}
  CoreProducers <- OneProducer
  Modes <- CasMode
  MaxPos <- OneTurn
SPECIFICATION FairSpec
PROPERTY ReservationsClose
CHECK_DEADLOCK FALSE
