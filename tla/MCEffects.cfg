SPECIFICATION Spec
CONSTANTS
  Cards = {1, 2, 3}
  Effects = {"e1", "e2", "e3", "e4", "e5", "e6"}
  Codes = {"k"}
  Settings <- MCSettings
INVARIANTS
  TypeOK
  NegatedInTime
  ActivationsKept
PROPERTIES
  NegationSettles
