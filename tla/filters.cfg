CONSTANTS
  Texts <- MCTexts
  Programs <- MCPrograms
  Packets <- MCPackets
  Word = 1073741824
  MaxJump = 12
  MaxTokens = 4
  Filters <- MCFilters
  Together <- MCTogether
  RawConfigs <- MCRawConfigs
  Operations <- MCOperations
  Devices <- MCDevices
  ExemptPid = 4
  MaxRules = 2
  MaxPath = 5
  MaxName = 5
  MaxUnits = 4
SPECIFICATION HandleSpec
INVARIANTS MachineTypeOK MatchesWhatFilterSays RefusedForCause TypeOK SuspendedIfAsked
PROPERTIES RunsForward WorkEnds
CHECK_DEADLOCK FALSE
