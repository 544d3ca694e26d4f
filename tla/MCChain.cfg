SPECIFICATION FairSpec
CONSTANTS
  turn_player = 0
  Settings <- AllDuels
  MaxPerEvent = 2
INVARIANTS TypeOK TriggersOffered TriggerOrder
PROPERTIES PriorityPassed ChainResolved ReturnsUndisturbed
