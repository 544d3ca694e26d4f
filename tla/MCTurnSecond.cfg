SPECIFICATION Spec
CONSTANTS
  Duels <- TagDuels
  TeamSize <- Team
PROPERTY SecondBattlePhase
