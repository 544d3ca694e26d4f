SPECIFICATION FairSpec
CONSTANTS
  turn_player = 0
  Settings <- ControlDuels
  MaxPerEvent = 2
PROPERTY ProcessReturns
