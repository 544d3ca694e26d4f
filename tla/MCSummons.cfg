SPECIFICATION Spec
CONSTANTS
  m = m
  d = d
  h = h
  p = p
  s = s
  t = t
  f = f
  Cards = {m, d, h, p, s, t, f}
  Start <- Where
  Tributed = {h}
  Geminis = {m, p}
  Procs = {p}
  Spells = {s, t, f}
  FieldSpells = {f}
  Settings <- AllDuels
INVARIANTS
  TypeOK
  SummonLimit
  Settled
  Succeeded
