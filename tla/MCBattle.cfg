SPECIFICATION FairSpec
CONSTANTS
  Monsters = {a, b, t, u}
  Mine = {a, b}
  Reserves = {u}
  Settings <- AllPhases
INVARIANTS
  TypeOK
  AttackCounted
  DamageStepOver
PROPERTY
  DamageStepEnds
