\* The grid 2^6 - 1, every control parameter and every state of it.
CONSTANTS
  M = 63
  MIN_P = 2
  DEAD_STATE_FIX = 42
  Controls <- TwoRounds
  Budgets = {0, 5, 13, 1000}
  None = None
SPECIFICATION Spec
INVARIANTS
  TypeOK
  PortsAgree
  PeriodsExact
PROPERTIES
  DiesOnlyAtCorners
