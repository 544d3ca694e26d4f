SPECIFICATION Spec
CONSTANTS
  Functions = {f1, f2}
  NoFunction = NoFunction
  Events = {e1, e2}
  NoEvent = NoEvent
  StepModulus = 5
  MaxYields = 2
  MaxUnits = 4
SYMMETRY Symmetry
INVARIANTS TypeOK EventsInStep CountsKept ThreadOwner ShuffleScope
PROPERTY FreshAnswer
