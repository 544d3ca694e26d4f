SPECIFICATION Spec
CONSTANTS
  Cards = {h, e, m, t, f}
  Tokens = {t}
  Equips = {e}
  Fields = {f}
  TrapMonsters = {h}
  Overlays = {m}
  Host = h
  Settings <- AllDuels
INVARIANTS
  TypeOK
  ConfirmedDestroyed
  Attached
  ReasonKept
