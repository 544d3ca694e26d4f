SPECIFICATION Spec
CONSTANTS
  MaxCards = 4
  Requests <- AllCalls
INVARIANTS TypeOK Legal Answerable
CHECK_DEADLOCK FALSE
