SPECIFICATION Spec
CONSTANTS
  main = main
  pendulum = pendulum
  fusion = fusion
  Cards = {main, pendulum, fusion}
  NoCard = NoCard
  Owner <- MCOwner
  ExtraMonsters = {fusion}
  Fusions = {fusion}
  Pendulums = {pendulum}
  MZones = {0, 5, 6}
  SZones = {0, 4}
  PZones = {0, 4}
  PseudoShuffle = FALSE
  AnySwap = FALSE
INVARIANTS TypeOK Located
PROPERTY Placed
