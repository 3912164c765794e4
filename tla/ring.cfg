CONSTANTS
  p1 = p1  p2 = p2  r1 = r1  r2 = r2
  Producers <- TwoProducers
  CoreProducers <- OneProducer
  Readers <- OneReader
  Preempts <- NoPreemption
  Size = 4
  Lens = {1, 2, 3}
  Modes <- BothModes
  MaxPos <- TurnsByMode
SPECIFICATION FairSpec
INVARIANTS TypeOK ReservationsDisjoint NoStrandedReservation HeldIntact
PROPERTIES HeadAdvances ImplementsFifo ReservationsClose
CHECK_DEADLOCK FALSE
