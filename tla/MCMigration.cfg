SPECIFICATION Spec
CONSTANTS
  Portals = {p1, p2}
  MaxFaults = 3
INVARIANTS
  TypeOK
  ReadyHasSchema
PROPERTIES
  OnlyFaultsStopAStart
  ComesUp
\* Every portal is up and no fault is left to happen.
CHECK_DEADLOCK FALSE
