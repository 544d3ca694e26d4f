SPECIFICATION FairSpec
CONSTANTS
  Duels <- AllDuels
  TeamSize <- Team
INVARIANTS
  TypeOK
  ReturnsFresh
  ResetsOnce
  PhasesKept
  DuelistOrder
PROPERTY TurnEnds
