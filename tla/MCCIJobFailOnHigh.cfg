\* The GitHub action and its fail-on-high input.
SPECIFICATION Spec
CONSTANTS
  Order <- MCOrder
  Language <- MCLanguage
  Versions <- MCVersions
  Trees <- MCTrees
  Gone = Gone
  None = None
  Stale = Stale
  Torn = Torn
  MaxEdits = 0
INVARIANTS
  FailsOnHigh
\* A job that has reported is over.
CHECK_DEADLOCK FALSE
