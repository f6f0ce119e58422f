SPECIFICATION Spec
CONSTANTS
  Devs = {d1, d2}
  MaxSnapshot = 2
  MaxChanges = 3
INVARIANTS ReconcilesRight
CHECK_DEADLOCK FALSE
