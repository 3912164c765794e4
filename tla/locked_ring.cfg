CONSTANTS
  t1 = t1  t2 = t2
  Threads <- TwoThreads
  Pushes = 2
  MaxNodes = 5
  Delays <- AnyMachine
SPECIFICATION FairSpec
INVARIANTS TypeOK OneDrainer NothingFrozenInOrder TailKeepsUp
PROPERTIES ImplementsQueue QueueDrains
CHECK_DEADLOCK FALSE
