CONSTANTS
  c1 = c1  c2 = c2  d1 = d1  d2 = d2
  Clients <- TwoClients
  Cores <- TwoCores
  Owns <- OneCoreEach
  Callouts <- TwoCallouts
  MaxUnread = 2
  Layer = "packet"
  Delays <- AnyMachine
SPECIFICATION FairSpec
INVARIANTS TypeOK DoubleCheckWorks SleeperStaysArmed
PROPERTY SleepersWake
CHECK_DEADLOCK FALSE
